---- MODULE Spec2Model ----
(***************************************************************************)
(* Verification model of claude-code-proxy's request dispatch engine.      *)
(*                                                                         *)
(*   Part 1  fair queue            src/fair-queue.mjs      (SpecFQ)        *)
(*   Part 2  rate-limit admission  src/rate-limiter.mjs,                   *)
(*                                 src/server.mjs          (SpecRL)        *)
(*   Part 3  streaming engine      src/server.mjs          (SpecStream)    *)
(*                                                                         *)
(* Every part has its own variables, initial state and next-state          *)
(* relation; a specification of one part leaves the other parts'           *)
(* variables unchanged.  Time is a discrete clock.                           *)
(***************************************************************************)
EXTENDS Integers, Sequences, FiniteSets, TLC

(***************************************************************************)
(* Part 1: the fair queue (createFairQueue).                               *)
(***************************************************************************)

\* The queue's clock ticks every 2.5 s: all durations of part 1 are counted
\* in ticks of 2.5 s.
\* Model bounds, and the construction options the model instantiates the queue with.
Sources == {"A", "B", "C"}
Priorities == {"high", "normal", "low"}
\* SpecFQ (timers and sweeps): the clients, the acquire calls, the clock.
TimedSources == {"A", "B"}
MaxAcquires == 3
MaxTimeFQ == 5
\* SpecFQOrder (no time passes): the acquire calls.
MaxAcquiresOrder == 4
MaxAcquiresRotate == 6
maxConcurrent == 1
maxPerSource == 2
maxTotal == 3
queueTimeoutMs == 1
maxLeaseMs == 1
defaultMaxConcurrentPerSource == 0
maxConcurrentPerSource == [s \in {"A"} |-> 1]
\* setInterval(..., 5000): the sweep period of 5000 ms is 2 ticks.
SweepPeriod == 2

VARIABLES
    activeCount,      \* let activeCount
    totalQueued,      \* let totalQueued
    sourceQueues,     \* Map sourceId -> entries; <<>> stands for "no key"
    sourceOrder,      \* let sourceOrder
    rrIndex,          \* let rrIndex
    nextLeaseId,      \* let nextLeaseId
    activeLeases,     \* Map leaseId -> [sourceId, acquiredAt]
    activePerSource,  \* Map sourceId -> count; 0 stands for "no key"
    metrics,          \* let metrics
    closures,         \* leaseId -> the releaseFn closure: [sourceId, released],
                      \*   with the history fields `decrements` (how often the
                      \*   active counts were decremented on behalf of the lease),
                      \*   `calls` (invocations of the closure: 0, 1, 2 = two or
                      \*   more) and `leakedAfter` (how long the lease was held
                      \*   when the sweep force-released it, -1 if it did not)
    now,              \* Date.now()
    nextSweepAt,      \* when the sweep interval fires next
    nextReqId,        \* identity of the next entry object / acquire call
    acquireLimit,     \* how many acquire calls the clients make in all
    queueLimits,      \* the options maxConcurrent, maxPerSource and maxTotal the
                      \*   queue was created with
    dispatchLog,      \* history of the dispatch-order scenarios: the acquire calls
                      \*   made ([sourceId, priority] by call id) and the call ids in
                      \*   the order their slots were granted
    lastGrants,       \* history: the grants made by the last operation
    passedOver,       \* history: sourceId -> queue grants to others while it waited
    timers,           \* entry id -> [sourceId, enqueuedAt] of the armed entry.timer
    settled           \* history: acquire call id -> times its promise was settled

fqVars == <<activeCount, totalQueued, sourceQueues, sourceOrder, rrIndex,
            nextLeaseId, activeLeases, activePerSource, metrics, closures,
            now, nextSweepAt, nextReqId, acquireLimit, queueLimits, dispatchLog,
            lastGrants,
            passedOver,
            timers, settled>>

\* State of the rate limiter and of the requests in the admission loop (Part 2).
VARIABLES
    rlNow,        \* Date.now()
    windows,      \* model -> sequence of recorded requests [ts, tok]
    waiters,      \* slot -> a request sleeping in the admission loop, or NoWaiter
    admittedAt,   \* history: the last requestsPerMin + 1 records [ts, waited]
    lastOutcome,  \* history: how the last loop iteration ended
    slotReleases  \* history: slot -> release() calls the loop made for its request

rlVars == <<rlNow, windows, waiters, admittedAt, lastOutcome, slotReleases>>

\* State of one streaming request and of the worker pool (Part 3).
VARIABLES
    started,          \* the handler has sent the headers and called pipeStream
    writableEnded,    \* res.writableEnded
    clientClosed,     \* the client's connection is gone
    out,              \* what the client has received: sequence of [kind, from]
    retryCount,
    triedRouters,
    activeProc,       \* index of the attempt held in activeProc, 0 = null
    releaseCalls,     \* calls of the request's queue release()
    attempts,         \* the worker processes spawned by pipeStream, in order
    fallbacks,        \* the fallback requests started by streamFromFallbackApi
    limitedSeq,       \* the workers marked limited, in the order of limitedAt
    _loadBalanceMode,
    _activeConns,
    workerRequests,   \* workerStats.traffic[w].requests
    streamRetries,    \* workerStats.errors.stream_retry
    endedBy,          \* history: the handler that called res.end()
    lineLimit,        \* bound of the run: stdout events per attempt
    spawnLimit        \* bound of the run: spawns that fail

stVars == <<started, writableEnded, clientClosed, out, retryCount, triedRouters,
            activeProc, releaseCalls, attempts, fallbacks, limitedSeq,
            _loadBalanceMode, _activeConns, workerRequests, streamRetries, endedBy,
            lineLimit, spawnLimit>>

\* State of the timers of one streaming attempt and of the worker health
\* check (Part 4); times in milliseconds.
VARIABLES
    kaNow,             \* Date.now()
    kaRunning,         \* an attempt is in progress: its keepaliveInterval is set
    keepaliveMs,       \* let keepaliveMs
    kaDueAt,           \* when keepaliveInterval fires next
    lastByteAt,        \* history: when the last byte was written to the client
    kaAttempts,        \* pipeStream calls of the request so far
    hNow,              \* Date.now() of the health check
    limitedAt,         \* _workerHealth.get(w).limitedAt (0 while not limited)
    nextHealthAt,      \* when the health check timer fires next
    limitedSince,      \* history: when w went from healthy to limited, -1 if healthy
    recoveredAfter,    \* history: how long w's last limited period lasted, -1 if none
    lastHealthAt       \* history: when the health check ran last, -1 if never

tmVars == <<kaNow, kaRunning, keepaliveMs, kaDueAt, lastByteAt, kaAttempts,
            hNow, limitedAt, nextHealthAt, limitedSince, recoveredAfter, lastHealthAt>>

kaVars == <<kaNow, kaRunning, keepaliveMs, kaDueAt, lastByteAt, kaAttempts>>
hVars == <<hNow, limitedAt, nextHealthAt, limitedSince, recoveredAfter, lastHealthAt>>

\* State of the process registry and of the warm worker pool (Part 5); times
\* in milliseconds.
VARIABLES
    pmNow,                 \* Date.now()
    registryEntries,               \* registry: Map pid -> [spawnedAt, lastActivityAt]
    osAlive,               \* pids of the CLI processes that exist and were not killed
    closeOwed,             \* pids of ended processes whose 'close' listener is still to run
    reaperInterval,        \* the registry's reaperInterval is set
    lastReap,              \* history: what reap() reported since the last clock step
    pools,                 \* warm pool of the key: sequence of [pid, createdAt]
    pendingWarmUps,        \* warmUp callbacks queued by setImmediate
    sweepTimer,            \* the warm pool's sweepTimer is set
    shutdownCalled,        \* shutdown(signal) has run
    spawnedAfterShutdown,  \* history: a process was spawned after shutdown
    lastAcquire            \* history: what the last warm-pool acquire since the last
                           \*   clock step handed out, signalled and skipped

pmVars == <<pmNow, registryEntries, osAlive, closeOwed, reaperInterval, lastReap, pools, pendingWarmUps,
            sweepTimer, shutdownCalled, spawnedAfterShutdown, lastAcquire>>

\* The argument and the result of one call of extractPrompt (Part 6).
VARIABLES
    messages,      \* the request's messages: sequence of [role, len]
    extracted      \* what extractPrompt returned, or NotExtracted

epVars == <<messages, extracted>>

\* State of one streaming request between its queue lease and the end of its
\* last worker (Part 7); times in milliseconds.
VARIABLES
    lsNow,            \* Date.now()
    lsPhase,          \* where the handler is: "idle", "rateWait", "stream", "done"
    lease,            \* the slot of the request: "none", "held", "released", "leaked"
    leaseAcquiredAt,  \* lease.acquiredAt
    lsRateWaitTotal,  \* let rateWaitTotal
    lsWakeAt,         \* when the sleep of the rate-wait loop ends
    lsSpawnedAt,      \* when the worker of the current attempt was spawned
    lsSignalled,      \* execTimer has sent SIGTERM to the worker
    lsRetryCount,     \* let retryCount
    lsNextSweepAt     \* when the queue's sweep interval fires next

lsVars == <<lsNow, lsPhase, lease, leaseAcquiredAt, lsRateWaitTotal, lsWakeAt,
            lsSpawnedAt, lsSignalled, lsRetryCount, lsNextSweepAt>>

PRIORITY_ORDER == [high |-> 0, normal |-> 1, low |-> 2]

\* The closure state of one queue as a record, threaded through the helpers.
FQ ==
    [activeCount |-> activeCount, totalQueued |-> totalQueued,
     sourceQueues |-> sourceQueues, sourceOrder |-> sourceOrder,
     rrIndex |-> rrIndex, nextLeaseId |-> nextLeaseId,
     activeLeases |-> activeLeases, activePerSource |-> activePerSource,
     metrics |-> metrics, closures |-> closures,
     lastGrants |-> <<>>, passedOver |-> passedOver,
     timers |-> timers, settled |-> settled]

SetFQ(S) ==
    /\ activeCount' = S.activeCount
    /\ totalQueued' = S.totalQueued
    /\ sourceQueues' = S.sourceQueues
    /\ sourceOrder' = S.sourceOrder
    /\ rrIndex' = S.rrIndex
    /\ nextLeaseId' = S.nextLeaseId
    /\ activeLeases' = S.activeLeases
    /\ activePerSource' = S.activePerSource
    /\ metrics' = S.metrics
    /\ closures' = S.closures
    /\ lastGrants' = S.lastGrants
    /\ passedOver' = S.passedOver
    /\ timers' = S.timers
    /\ settled' = S.settled

RemoveKey(f, k) == [x \in DOMAIN f \ {k} |-> f[x]]

\* History only: the promise of acquire call `id` is resolved or rejected.
NoteSettled(S, id) == [S EXCEPT !.settled[id] = @ + 1]

\* clearTimeout(entry.timer)
clearTimeout(S, id) == [S EXCEPT !.timers = RemoveKey(@, id)]

getSourceConcurrencyLimit(sourceId) ==
    IF sourceId \in DOMAIN maxConcurrentPerSource
    THEN maxConcurrentPerSource[sourceId]
    ELSE defaultMaxConcurrentPerSource

getSourceActiveCount(S, sourceId) == S.activePerSource[sourceId]

\* isSourceAtLimit with `>` for `>=`.
isSourceAtLimitOffByOne(S, sourceId) ==
    LET limit == getSourceConcurrencyLimit(sourceId)
    IN  IF limit <= 0 THEN FALSE
        ELSE getSourceActiveCount(S, sourceId) > limit

isSourceAtLimit(S, sourceId) ==
    LET limit == getSourceConcurrencyLimit(sourceId)
    IN  IF limit <= 0 THEN FALSE
        ELSE getSourceActiveCount(S, sourceId) >= limit

incrementSourceActive(S, sourceId) ==
    [S EXCEPT !.activePerSource[sourceId] = @ + 1]

decrementSourceActive(S, sourceId) ==
    LET current == getSourceActiveCount(S, sourceId)
    IN  [S EXCEPT !.activePerSource[sourceId] =
                      IF current <= 1 THEN 0 ELSE current - 1]

\* A source is waiting for its turn: its queue is non-empty and it is below its cap.
Eligible(S, sourceId) ==
    /\ S.sourceQueues[sourceId] # <<>>
    /\ ~isSourceAtLimit(S, sourceId)

\* History only: a source that stopped waiting forgets who passed it.
NormHistory(S) ==
    [S EXCEPT !.passedOver =
        [y \in Sources |-> IF Eligible(S, y) THEN S.passedOver[y] ELSE <<>>]]

\* grantSlot; `entry` is the dequeued entry, or NoEntry on the fast path.
NoEntry == [id |-> -1, priority |-> "normal", enqueuedAt |-> -1]

grantSlot(S, sourceId, entry, t) ==
    LET S1 == incrementSourceActive([S EXCEPT !.activeCount = @ + 1], sourceId)
        leaseId == S.nextLeaseId
    IN  [S1 EXCEPT
            !.metrics.totalProcessed = @ + 1,
            !.metrics.perSource[sourceId].processed = @ + 1,
            !.nextLeaseId = @ + 1,
            !.activeLeases = @ @@ (leaseId :> [sourceId |-> sourceId, acquiredAt |-> t]),
            !.closures = @ @@ (leaseId :> [sourceId |-> sourceId, released |-> FALSE,
                                           decrements |-> 0, calls |-> 0,
                                           leakedAfter |-> -1]),
            !.lastGrants = Append(@, [sourceId |-> sourceId, id |-> entry.id,
                                      priority |-> entry.priority, leaseId |-> leaseId,
                                      fast |-> (entry = NoEntry),
                                      activeBefore |-> S.activeCount])]

\* sourceOrder.filter((id) => id !== sourceId)
WithoutSource(order, sourceId) == SelectSeq(order, LAMBDA id : id # sourceId)

\* dequeueNext: the index into activeSources of the source to serve, 0 for null.
RECURSIVE PickIndex(_, _, _, _)
PickIndex(S, activeSources, startIdx, i) ==
    IF i >= Len(activeSources) THEN 0
    ELSE LET idx == (startIdx + i) % Len(activeSources)
         IN  IF isSourceAtLimit(S, activeSources[idx + 1])
             THEN PickIndex(S, activeSources, startIdx, i + 1)
             ELSE idx + 1

NextRrIndex(idx, n) == (idx + 1) % (IF n > 1 THEN n ELSE 1)

\* dequeueNext: [found, entry, sourceId, S]
dequeueNext(S) ==
    LET activeSources == SelectSeq(S.sourceOrder, LAMBDA id : Len(S.sourceQueues[id]) > 0)
    IN  IF Len(activeSources) = 0 THEN [found |-> FALSE, S |-> S]
        ELSE
        LET startIdx == S.rrIndex % Len(activeSources)
            pick == PickIndex(S, activeSources, startIdx, 0)
        IN  IF pick = 0 THEN [found |-> FALSE, S |-> S]
            ELSE
            LET sourceId == activeSources[pick]
                queue == S.sourceQueues[sourceId]
                rest == Tail(queue)
                S1 == [S EXCEPT
                        !.rrIndex = NextRrIndex(pick - 1, Len(activeSources)),
                        !.sourceQueues[sourceId] = rest,
                        !.sourceOrder = IF rest = <<>> THEN WithoutSource(@, sourceId) ELSE @,
                        !.passedOver =
                            [y \in Sources |->
                                IF y # sourceId /\ Eligible(S, y)
                                THEN Append(S.passedOver[y], sourceId) ELSE <<>>]]
            IN  [found |-> TRUE, entry |-> Head(queue), sourceId |-> sourceId, S |-> S1]

\* tryDispatch with the loop condition off by one (activeCount <= maxConcurrent).
RECURSIVE tryDispatchOffByOne(_, _)
tryDispatchOffByOne(S, t) ==
    IF S.activeCount <= queueLimits.maxConcurrent /\ S.totalQueued > 0
    THEN LET d == dequeueNext(S)
         IN  IF ~d.found THEN S
             ELSE tryDispatchOffByOne(
                    NoteSettled(
                        grantSlot([clearTimeout(d.S, d.entry.id) EXCEPT !.totalQueued = @ - 1],
                                  d.sourceId, d.entry, t),
                        d.entry.id), t)
    ELSE S

RECURSIVE tryDispatch(_, _)
tryDispatch(S, t) ==
    IF S.activeCount < queueLimits.maxConcurrent /\ S.totalQueued > 0
    THEN LET d == dequeueNext(S)
         IN  IF ~d.found THEN S
             ELSE tryDispatch(
                    NoteSettled(
                        grantSlot([clearTimeout(d.S, d.entry.id) EXCEPT !.totalQueued = @ - 1],
                                  d.sourceId, d.entry, t),
                        d.entry.id), t)
    ELSE S

\* [...sourceQueue, entry].sort(by PRIORITY_ORDER): a stable sort on a three-valued key.
Rank(e) == PRIORITY_ORDER[e.priority]

\* The priority insert without its sort.
SortMissing(q) == q

SortByPriority(q) ==
    SelectSeq(q, LAMBDA e : Rank(e) = 0) \o SelectSeq(q, LAMBDA e : Rank(e) = 1)
        \o SelectSeq(q, LAMBDA e : Rank(e) = 2)

\* The throttle bookkeeping of acquire for a source at its cap.
NoteThrottled(S, sourceId) ==
    IF isSourceAtLimit(S, sourceId)
    THEN [S EXCEPT !.metrics.totalThrottled = @ + 1,
                   !.metrics.perSource[sourceId].throttled = @ + 1]
    ELSE S

\* The two queue limits of acquire with `>` for `>=`.
queueFullOffByOne(S, sourceId) ==
    \/ S.totalQueued > queueLimits.maxTotal
    \/ Len(S.sourceQueues[sourceId]) > queueLimits.maxPerSource

\* The two queue limits of acquire: both reject with a "queue full" error.
queueFull(S, sourceId) ==
    \/ S.totalQueued >= queueLimits.maxTotal
    \/ Len(S.sourceQueues[sourceId]) >= queueLimits.maxPerSource

\* acquire(sourceId, priority) at time t, whose entry object is `id`.
acquire(S0, sourceId, priority, id, t) ==
    LET S == [S0 EXCEPT !.settled = @ @@ (id :> 0)]
    IN
    IF S.activeCount < queueLimits.maxConcurrent /\ S.totalQueued = 0
       /\ ~isSourceAtLimit(S, sourceId)
    THEN NoteSettled(grantSlot(S, sourceId, NoEntry, t), id)
    ELSE
    LET S1 == NoteThrottled(S, sourceId)
        sourceQueue == S1.sourceQueues[sourceId]
    IN  IF queueFull(S1, sourceId)
        THEN NoteSettled([S1 EXCEPT !.metrics.totalRejected = @ + 1], id)
        ELSE
        LET entry == [id |-> id, priority |-> priority, enqueuedAt |-> t]
            newQueue == SortByPriority(Append(sourceQueue, entry))
            S2 == [S1 EXCEPT
                    !.timers = @ @@ (id :> [sourceId |-> sourceId, enqueuedAt |-> t]),
                    !.sourceQueues[sourceId] = newQueue,
                    !.sourceOrder = IF \E i \in 1..Len(@) : @[i] = sourceId
                                    THEN @ ELSE Append(@, sourceId),
                    !.totalQueued = @ + 1]
        IN  tryDispatch(S2, t)

\* The setTimeout callback of the queued entry `id` of `sourceId`.
\* The timer callback without the removal of an emptied source from sourceOrder.
entryTimeoutKeepsOrder(S, sourceId, id) ==
    LET q == S.sourceQueues[sourceId]
        filtered == SelectSeq(q, LAMBDA e : e.id # id)
    IN  NoteSettled(
            [S EXCEPT
                !.timers = RemoveKey(@, id),
                !.sourceQueues[sourceId] = filtered,
                !.totalQueued = @ - 1,
                !.metrics.totalTimedOut = @ + 1],
            id)

entryTimeout(S, sourceId, id) ==
    LET q == S.sourceQueues[sourceId]
        filtered == SelectSeq(q, LAMBDA e : e.id # id)
    IN  NoteSettled(
            [S EXCEPT
                !.timers = RemoveKey(@, id),
                !.sourceQueues[sourceId] = filtered,
                !.sourceOrder = IF filtered = <<>> THEN WithoutSource(@, sourceId) ELSE @,
                !.totalQueued = @ - 1,
                !.metrics.totalTimedOut = @ + 1],
            id)

\* releaseFn without its two guards (`released`, activeLeases.has).
releaseFnUnguarded(S, leaseId, t) ==
    tryDispatch(
        decrementSourceActive(
            [S EXCEPT !.closures[leaseId].released = TRUE,
                      !.activeLeases = RemoveKey(@, leaseId),
                      !.activeCount = @ - 1,
                      !.closures[leaseId].decrements = @ + 1],
            S.closures[leaseId].sourceId), t)

\* History only: one more invocation of the release closure.
NoteCall(S, leaseId) ==
    [S EXCEPT !.closures[leaseId].calls = IF @ >= 2 THEN 2 ELSE @ + 1]

\* releaseFn of lease `leaseId`.
releaseFn(S, leaseId, t) ==
    IF S.closures[leaseId].released THEN S
    ELSE
    LET S1 == [S EXCEPT !.closures[leaseId].released = TRUE]
        S2 == IF leaseId \in DOMAIN S1.activeLeases
              THEN decrementSourceActive(
                     [S1 EXCEPT !.activeLeases = RemoveKey(@, leaseId),
                                !.activeCount = @ - 1,
                                !.closures[leaseId].decrements = @ + 1],
                     S1.closures[leaseId].sourceId)
              ELSE S1
    IN  tryDispatch(S2, t)

\* Sweep phase 1 for one source without the clearTimeout of the expired entries.
sweepSourceLeavesTimers(S, sourceId, t) ==
    LET entries == S.sourceQueues[sourceId]
        expired == SelectSeq(entries, LAMBDA e : t - e.enqueuedAt > queueTimeoutMs)
        remaining == SelectSeq(entries, LAMBDA e : t - e.enqueuedAt <= queueTimeoutMs)
        expiredIds == {expired[i].id : i \in 1..Len(expired)}
    IN  IF entries = <<>> THEN S
        ELSE [S EXCEPT
                !.settled = [i \in DOMAIN @ |-> IF i \in expiredIds THEN @[i] + 1 ELSE @[i]],
                !.totalQueued = @ - Len(expired),
                !.metrics.totalTimedOut = @ + Len(expired),
                !.sourceQueues[sourceId] = remaining,
                !.sourceOrder = IF remaining = <<>> THEN WithoutSource(@, sourceId) ELSE @]

\* Sweep phase 1 for one source.
sweepSource(S, sourceId, t) ==
    LET entries == S.sourceQueues[sourceId]
        expired == SelectSeq(entries, LAMBDA e : t - e.enqueuedAt > queueTimeoutMs)
        remaining == SelectSeq(entries, LAMBDA e : t - e.enqueuedAt <= queueTimeoutMs)
        expiredIds == {expired[i].id : i \in 1..Len(expired)}
    IN  IF entries = <<>> THEN S
        ELSE [S EXCEPT
                !.timers = [i \in DOMAIN @ \ expiredIds |-> @[i]],
                !.settled = [i \in DOMAIN @ |-> IF i \in expiredIds THEN @[i] + 1 ELSE @[i]],
                !.totalQueued = @ - Len(expired),
                !.metrics.totalTimedOut = @ + Len(expired),
                !.sourceQueues[sourceId] = remaining,
                !.sourceOrder = IF remaining = <<>> THEN WithoutSource(@, sourceId) ELSE @]

RECURSIVE sweepQueues(_, _, _)
sweepQueues(S, todo, t) ==
    IF todo = {} THEN S
    ELSE LET s == CHOOSE x \in todo : TRUE
         IN  sweepQueues(sweepSource(S, s, t), todo \ {s}, t)

\* Sweep phase 2 comparing the acquire time, not the holding time, with maxLeaseMs.
LeakedByAcquireTime(S, t) ==
    {l \in DOMAIN S.activeLeases : S.activeLeases[l].acquiredAt > maxLeaseMs}

\* Sweep phase 2: the leases held longer than maxLeaseMs.
Leaked(S, t) == {l \in DOMAIN S.activeLeases : t - S.activeLeases[l].acquiredAt > maxLeaseMs}

RECURSIVE forceRelease(_, _, _)
forceRelease(S, leaked, t) ==
    IF leaked = {} THEN S
    ELSE LET l == CHOOSE x \in leaked : TRUE
             S1 == decrementSourceActive(
                     [S EXCEPT !.activeLeases = RemoveKey(@, l),
                               !.activeCount = @ - 1,
                               !.closures[l].decrements = @ + 1,
                               !.closures[l].leakedAfter = t - S.activeLeases[l].acquiredAt],
                     S.activeLeases[l].sourceId)
         IN  forceRelease(S1, leaked \ {l}, t)

\* The sweep without the dispatch that follows a force-release.
sweepNoDispatch(S, t) ==
    LET S1 == sweepQueues(S, Sources, t)
        leaked == Leaked(S1, t)
        S2 == forceRelease(S1, leaked, t)
    IN  [S2 EXCEPT !.metrics.totalLeaked = @ + Cardinality(leaked)]

sweep(S, t) ==
    LET S1 == sweepQueues(S, Sources, t)
        leaked == Leaked(S1, t)
        S2 == forceRelease(S1, leaked, t)
    IN  IF Cardinality(leaked) > 0
        THEN tryDispatch([S2 EXCEPT !.metrics.totalLeaked = @ + Cardinality(leaked)], t)
        ELSE S2

\* The limits every specification but the dispatch-order scenarios creates the queue with.
DefaultLimits ==
    [maxConcurrent |-> maxConcurrent, maxPerSource |-> maxPerSource, maxTotal |-> maxTotal]

NoLog == [submitted |-> <<>>, granted |-> <<>>]

InitQueue ==
    /\ activeCount = 0
    /\ totalQueued = 0
    /\ sourceQueues = [s \in Sources |-> <<>>]
    /\ sourceOrder = <<>>
    /\ rrIndex = 0
    /\ nextLeaseId = 0
    /\ activeLeases = <<>>
    /\ activePerSource = [s \in Sources |-> 0]
    /\ metrics = [totalProcessed |-> 0, totalTimedOut |-> 0, totalRejected |-> 0,
                  totalLeaked |-> 0, totalThrottled |-> 0,
                  perSource |-> [s \in Sources |-> [processed |-> 0, throttled |-> 0]]]
    /\ closures = <<>>
    /\ now = 0
    /\ nextSweepAt = SweepPeriod
    /\ nextReqId = 0
    /\ lastGrants = <<>>
    /\ passedOver = [s \in Sources |-> <<>>]
    /\ timers = <<>>
    /\ settled = <<>>
    /\ dispatchLog = NoLog

InitFQ == InitQueue /\ acquireLimit = MaxAcquires /\ queueLimits = DefaultLimits

InitFQOrder == InitQueue /\ acquireLimit = MaxAcquiresOrder /\ queueLimits = DefaultLimits

\* A client calls queue.acquire(sourceId, priority).
Acquire(sourceId, priority) ==
    /\ nextReqId < acquireLimit
    /\ SetFQ(NormHistory(acquire(FQ, sourceId, priority, nextReqId, now)))
    /\ nextReqId' = nextReqId + 1
    /\ UNCHANGED <<now, nextSweepAt, acquireLimit, queueLimits, dispatchLog>>
    /\ UNCHANGED <<rlVars, stVars, tmVars, pmVars, epVars, lsVars>>

\* The holder of a granted lease invokes its release closure (any number of times).
Release(leaseId) ==
    /\ leaseId \in DOMAIN closures
    /\ SetFQ(NormHistory(releaseFn(NoteCall(FQ, leaseId), leaseId, now)))
    /\ UNCHANGED <<now, nextSweepAt, nextReqId, acquireLimit, queueLimits, dispatchLog>>
    /\ UNCHANGED <<rlVars, stVars, tmVars, pmVars, epVars, lsVars>>

\* The armed timeout timer of entry `id` fires, at or after its delay.
QueueTimeout(id) ==
    /\ id \in DOMAIN timers
    /\ now - timers[id].enqueuedAt >= queueTimeoutMs
    /\ SetFQ(NormHistory(entryTimeout(FQ, timers[id].sourceId, id)))
    /\ UNCHANGED <<now, nextSweepAt, nextReqId, acquireLimit, queueLimits, dispatchLog>>
    /\ UNCHANGED <<rlVars, stVars, tmVars, pmVars, epVars, lsVars>>

\* The sweep interval fires.
Sweep ==
    /\ now = nextSweepAt
    /\ SetFQ(NormHistory(sweep(FQ, now)))
    /\ nextSweepAt' = nextSweepAt + SweepPeriod
    /\ UNCHANGED <<now, nextReqId, acquireLimit, queueLimits, dispatchLog>>
    /\ UNCHANGED <<rlVars, stVars, tmVars, pmVars, epVars, lsVars>>

\* One second passes; the sweep interval is never late.
TickFQ ==
    /\ now < MaxTimeFQ
    /\ now < nextSweepAt
    /\ now' = now + 1
    /\ lastGrants' = <<>>
    /\ UNCHANGED <<activeCount, totalQueued, sourceQueues, sourceOrder, rrIndex,
                   nextLeaseId, activeLeases, activePerSource, metrics, closures,
                   nextSweepAt, nextReqId, acquireLimit, queueLimits, dispatchLog, passedOver,
                   timers, settled>>
    /\ UNCHANGED <<rlVars, stVars, tmVars, pmVars, epVars, lsVars>>

NextFQ ==
    \/ \E s \in TimedSources, p \in Priorities : Acquire(s, p)
    \/ \E l \in 0..(MaxAcquires - 1) : Release(l)
    \/ \E id \in DOMAIN timers : QueueTimeout(id)
    \/ Sweep
    \/ TickFQ


\* The order of grants: submissions and releases while no time passes.
NextFQOrder ==
    \/ \E s \in Sources, p \in Priorities : Acquire(s, p)
    \/ \E l \in 0..(MaxAcquiresOrder - 1) : Release(l)


\* The untimed queue with all submissions at equal priority.
InitFQRotate == InitQueue /\ acquireLimit = MaxAcquiresRotate /\ queueLimits = DefaultLimits

NextFQRotate ==
    \/ \E s \in Sources : Acquire(s, "normal")
    \/ \E l \in 0..(MaxAcquiresRotate - 1) : Release(l)


\* The untimed queue filled to its limits by two sources at equal priority.
MaxAcquiresFull == 5

InitFQFull == InitQueue /\ acquireLimit = MaxAcquiresFull /\ queueLimits = DefaultLimits

NextFQFull ==
    \/ \E s \in TimedSources : Acquire(s, "normal")
    \/ \E l \in 0..(MaxAcquiresFull - 1) : Release(l)


\* The dispatch-order scenarios: one slot, every request submitted before the
\* first release, every grant released before the next.
RequestsPerSource == 4
BurstSize == 6
PairSources == {"A", "B"}
PairLimits ==
    [maxConcurrent |-> 1, maxPerSource |-> RequestsPerSource,
     maxTotal |-> 2 * RequestsPerSource]
BurstLimits == [maxConcurrent |-> 1, maxPerSource |-> BurstSize, maxTotal |-> BurstSize]

\* History only: the acquire calls whose promises an operation resolved.
GrantedIds(grants, callId) ==
    [i \in 1..Len(grants) |-> IF grants[i].fast THEN callId ELSE grants[i].id]

SubmittedBy(sourceId) ==
    Cardinality({i \in 1..Len(dispatchLog.submitted) :
                    dispatchLog.submitted[i].sourceId = sourceId})

\* A client of a scenario calls queue.acquire(sourceId, priority).
SubmitLogged(sourceId, priority) ==
    /\ nextReqId < acquireLimit
    /\ SetFQ(NormHistory(acquire(FQ, sourceId, priority, nextReqId, now)))
    /\ nextReqId' = nextReqId + 1
    /\ dispatchLog' =
          [submitted |-> Append(dispatchLog.submitted,
                                [sourceId |-> sourceId, priority |-> priority]),
           granted |-> dispatchLog.granted \o GrantedIds(lastGrants', nextReqId)]
    /\ UNCHANGED <<now, nextSweepAt, acquireLimit, queueLimits>>
    /\ UNCHANGED <<rlVars, stVars, tmVars, pmVars, epVars, lsVars>>

\* Once every request is submitted, the holder of the slot releases it.
ReleaseLogged(leaseId) ==
    /\ nextReqId = acquireLimit
    /\ leaseId \in DOMAIN activeLeases
    /\ SetFQ(NormHistory(releaseFn(NoteCall(FQ, leaseId), leaseId, now)))
    /\ dispatchLog' = [dispatchLog EXCEPT !.granted = @ \o GrantedIds(lastGrants', -1)]
    /\ UNCHANGED <<now, nextSweepAt, nextReqId, acquireLimit, queueLimits>>
    /\ UNCHANGED <<rlVars, stVars, tmVars, pmVars, epVars, lsVars>>

\* Two sources submit RequestsPerSource normal requests each, A first, then in
\* any interleaving.
InitFQPair ==
    InitQueue /\ acquireLimit = 2 * RequestsPerSource /\ queueLimits = PairLimits

SubmitPair(sourceId) ==
    /\ SubmittedBy(sourceId) < RequestsPerSource
    /\ nextReqId = 0 => sourceId = "A"
    /\ SubmitLogged(sourceId, "normal")

NextFQPair ==
    \/ \E s \in PairSources : SubmitPair(s)
    \/ \E l \in 0..(2 * RequestsPerSource - 1) : ReleaseLogged(l)

\* One source submits BurstSize requests of any priorities back-to-back.
InitFQBurst == InitQueue /\ acquireLimit = BurstSize /\ queueLimits = BurstLimits

NextFQBurst ==
    \/ \E p \in Priorities : SubmitLogged("A", p)
    \/ \E l \in 0..(BurstSize - 1) : ReleaseLogged(l)


\* The timed queue with more slots than the capped source may hold: source A
\* is capped by maxConcurrentPerSource, source B is not.
CapConcurrent == 2
MaxAcquiresCap == 3
CapLimits == [maxConcurrent |-> CapConcurrent, maxPerSource |-> maxPerSource, maxTotal |-> maxTotal]

InitFQCap == InitQueue /\ acquireLimit = MaxAcquiresCap /\ queueLimits = CapLimits

NextFQCap ==
    \/ \E s \in TimedSources : Acquire(s, "normal")
    \/ \E l \in 0..(MaxAcquiresCap - 1) : Release(l)
    \/ \E id \in DOMAIN timers : QueueTimeout(id)
    \/ Sweep
    \/ TickFQ

(***************************************************************************)
(* Part 2: the sliding-window rate limiter (rate-limiter.mjs) and the      *)
(* dispatcher's admission loop (check / sleep / re-check / record).        *)
(* Times are in milliseconds; the clock advances in steps of TickMs, and a *)
(* sleep timer fires at a clock step at or after its due time.             *)
(***************************************************************************)

WINDOW_MS == 60000
MAX_RATE_WAIT_MS == 300000
MaxSleepMs == 5000
MinWaitMs == 1000
TickMs == 5000
MaxTicksRL == 13
MaxLateTicks == 0
WaiterSlots == {1, 2}
requestsPerMin == 1
tokensPerMin == 3
TokenSizes == {1, tokensPerMin + 1}
Models == {"opus"}
FineMs == 4500

\* The configured limits: "sonnet" may make one request per minute more.
limits ==
    [m \in {"opus", "sonnet"} |->
        [requestsPerMin |-> IF m = "sonnet" THEN requestsPerMin + 1 ELSE requestsPerMin,
         tokensPerMin |-> tokensPerMin]]

NoWaiter == [model |-> "", estTokens |-> 0, rateWaitTotal |-> 0, sleepMs |-> 0, wakeAt |-> -1]

MaxOf(a, b) == IF a >= b THEN a ELSE b
MinOf(a, b) == IF a <= b THEN a ELSE b

RECURSIVE SumTok(_)
SumTok(reqs) == IF reqs = <<>> THEN 0 ELSE Head(reqs).tok + SumTok(Tail(reqs))

\* getWindow that still counts an event exactly WINDOW_MS old.
getWindowInclusive(W, model, t) ==
    LET valid == SelectSeq(W[model], LAMBDA r : t - r.ts <= WINDOW_MS)
    IN  [requests |-> valid, tokens |-> SumTok(valid)]

getWindow(W, model, t) ==
    LET valid == SelectSeq(W[model], LAMBDA r : t - r.ts < WINDOW_MS)
    IN  [requests |-> valid, tokens |-> SumTok(valid)]

\* check that refuses an over-limit request even when the window is empty.
checkNoEmptyWindowGrant(W, model, estTokens, t) ==
    LET modelLimits == limits[model]
        win == getWindow(W, model, t)
    IN  IF Len(win.requests) >= modelLimits.requestsPerMin
        THEN [ok |-> FALSE, waitMs |-> MaxOf(WINDOW_MS - (t - win.requests[1].ts), MinWaitMs)]
        ELSE IF win.tokens + estTokens > modelLimits.tokensPerMin
        THEN [ok |-> FALSE,
              waitMs |-> IF Len(win.requests) = 0 THEN MaxSleepMs
                         ELSE MaxOf(WINDOW_MS - (t - win.requests[1].ts), MinWaitMs)]
        ELSE [ok |-> TRUE, waitMs |-> 0]

\* check with the request limit compared by > instead of >=.
checkOffByOne(W, model, estTokens, t) ==
    LET modelLimits == limits[model]
        win == getWindow(W, model, t)
    IN  IF Len(win.requests) > modelLimits.requestsPerMin
        THEN [ok |-> FALSE, waitMs |-> MaxOf(WINDOW_MS - (t - win.requests[1].ts), MinWaitMs)]
        ELSE IF win.tokens + estTokens > modelLimits.tokensPerMin
        THEN IF Len(win.requests) = 0
             THEN [ok |-> TRUE, waitMs |-> 0]
             ELSE [ok |-> FALSE,
                   waitMs |-> MaxOf(WINDOW_MS - (t - win.requests[1].ts), MinWaitMs)]
        ELSE [ok |-> TRUE, waitMs |-> 0]

check(W, model, estTokens, t) ==
    LET modelLimits == limits[model]
        win == getWindow(W, model, t)
    IN  IF Len(win.requests) >= modelLimits.requestsPerMin
        THEN [ok |-> FALSE, waitMs |-> MaxOf(WINDOW_MS - (t - win.requests[1].ts), MinWaitMs)]
        ELSE IF win.tokens + estTokens > modelLimits.tokensPerMin
        THEN IF Len(win.requests) = 0
             THEN [ok |-> TRUE, waitMs |-> 0]
             ELSE [ok |-> FALSE,
                   waitMs |-> MaxOf(WINDOW_MS - (t - win.requests[1].ts), MinWaitMs)]
        ELSE [ok |-> TRUE, waitMs |-> 0]

record(W, model, estTokens, t) ==
    [W EXCEPT ![model] = Append(getWindow(W, model, t).requests, [ts |-> t, tok |-> estTokens])]

\* History only: keep the last requestsPerMin + 1 records.
NoteAdmitted(h, t, waited) ==
    LET all == Append(h, [ts |-> t, waited |-> waited])
    IN  IF Len(all) > requestsPerMin + 1 THEN Tail(all) ELSE all

FreeSlots == {i \in WaiterSlots : waiters[i] = NoWaiter}

\* The loop's test of the cap with `>` for `>=`.
rateWaitExceededLate(rateWaitTotal) == rateWaitTotal > MAX_RATE_WAIT_MS

\* if (rateWaitTotal >= MAX_RATE_WAIT_MS)
rateWaitExceeded(rateWaitTotal) == rateWaitTotal >= MAX_RATE_WAIT_MS

\* One iteration of the admission loop of handleCompletions for the request in
\* `slot`, from the check to the next await (or to the record after the loop).
rateLoop(slot, model, estTokens, rateWaitTotal) ==
    LET rateCheck == check(windows, model, estTokens, rlNow)
        sleepMs == MinOf(rateCheck.waitMs, MaxSleepMs)
        \* a request entering the loop has not called release()
        calls == IF rateWaitTotal = 0 THEN [slotReleases EXCEPT ![slot] = 0]
                 ELSE slotReleases
    IN  IF rateCheck.ok
        THEN /\ windows' = record(windows, model, estTokens, rlNow)
             /\ admittedAt' = NoteAdmitted(admittedAt, rlNow, rateWaitTotal > 0)
             /\ waiters' = [waiters EXCEPT ![slot] = NoWaiter]
             /\ lastOutcome' = "admitted"
             /\ slotReleases' = calls
        ELSE IF rateWaitExceeded(rateWaitTotal)
        THEN /\ waiters' = [waiters EXCEPT ![slot] = NoWaiter]
             /\ lastOutcome' = "rate_limit_timeout"
             /\ slotReleases' = [calls EXCEPT ![slot] = @ + 1]
             /\ UNCHANGED <<windows, admittedAt>>
        ELSE /\ waiters' = [waiters EXCEPT ![slot] =
                              [model |-> model, estTokens |-> estTokens,
                               rateWaitTotal |-> rateWaitTotal, sleepMs |-> sleepMs,
                               wakeAt |-> rlNow + sleepMs]]
             /\ lastOutcome' = "sleeping"
             /\ slotReleases' = calls
             /\ UNCHANGED <<windows, admittedAt>>

InitRL ==
    /\ rlNow = 0
    /\ windows = [m \in Models |-> <<>>]
    /\ waiters = [i \in WaiterSlots |-> NoWaiter]
    /\ admittedAt = <<>>
    /\ lastOutcome = "none"
    /\ slotReleases = [i \in WaiterSlots |-> 0]

\* A request that holds its queue slot enters the loop (first check).
EnterRateLoop(model, estTokens) ==
    /\ \/ FreeSlots # {}
       \/ check(windows, model, estTokens, rlNow).ok
    /\ LET slot == IF FreeSlots # {} THEN CHOOSE i \in FreeSlots : \A j \in FreeSlots : i <= j
                   ELSE 1
       IN  IF FreeSlots # {}
           THEN rateLoop(slot, model, estTokens, 0)
           ELSE /\ windows' = record(windows, model, estTokens, rlNow)
                /\ admittedAt' = NoteAdmitted(admittedAt, rlNow, FALSE)
                /\ lastOutcome' = "admitted"
                /\ UNCHANGED <<waiters, slotReleases>>
    /\ UNCHANGED rlNow
    /\ UNCHANGED <<fqVars, stVars, tmVars, pmVars, epVars, lsVars>>

\* The sleep of the request in `slot` is over: add it to the wait, check again.
WakeAndRecheck(slot) ==
    /\ waiters[slot] # NoWaiter
    /\ rlNow >= waiters[slot].wakeAt
    /\ rateLoop(slot, waiters[slot].model, waiters[slot].estTokens,
                waiters[slot].rateWaitTotal + waiters[slot].sleepMs)
    /\ UNCHANGED rlNow
    /\ UNCHANGED <<fqVars, stVars, tmVars, pmVars, epVars, lsVars>>

TickRL ==
    /\ rlNow < MaxTicksRL * TickMs
    /\ \A i \in WaiterSlots :
          waiters[i] # NoWaiter => rlNow < waiters[i].wakeAt + MaxLateTicks * TickMs
    /\ rlNow' = rlNow + TickMs
    /\ UNCHANGED <<windows, waiters, admittedAt, lastOutcome, slotReleases>>
    /\ UNCHANGED <<fqVars, stVars, tmVars, pmVars, epVars, lsVars>>

NextRL ==
    \/ \E m \in Models, tok \in TokenSizes : EnterRateLoop(m, tok)
    \/ \E i \in WaiterSlots : WakeAndRecheck(i)
    \/ TickRL

\* The admission loop over a horizon longer than the rate-wait cap: requests of
\* one token each, so that the request limit alone decides.
MaxTicksLong == 62

\* Time passes, never beyond the clock step at which a sleep is over.
TickRLLong ==
    /\ rlNow < MaxTicksLong * TickMs
    /\ \A i \in WaiterSlots : waiters[i] # NoWaiter => rlNow < waiters[i].wakeAt
    /\ rlNow' = rlNow + TickMs
    /\ UNCHANGED <<windows, waiters, admittedAt, lastOutcome, slotReleases>>
    /\ UNCHANGED <<fqVars, stVars, tmVars, pmVars, epVars, lsVars>>

\* One request at a time sleeps in the loop; the other requests arrive when
\* the limiter admits them.
EnterOrPass(model) ==
    /\ \/ \A i \in WaiterSlots : waiters[i] = NoWaiter
       \/ check(windows, model, 1, rlNow).ok
    /\ EnterRateLoop(model, 1)

NextRLLong ==
    \/ \E m \in Models : EnterOrPass(m)
    \/ \E i \in WaiterSlots : WakeAndRecheck(i)
    \/ TickRLLong

\* The limiter serving the model "sonnet".
InitRLFine ==
    /\ rlNow = 0
    /\ windows = [m \in {"sonnet"} |-> <<>>]
    /\ waiters = [i \in WaiterSlots |-> NoWaiter]
    /\ admittedAt = <<>>
    /\ lastOutcome = "none"
    /\ slotReleases = [i \in WaiterSlots |-> 0]

\* The clock moves by FineMs, once, off the grid of TickMs: a later check sees
\* events whose age is not a multiple of TickMs.
TickFine ==
    /\ rlNow < MaxTicksRL * TickMs
    /\ rlNow % TickMs = 0
    /\ \A i \in WaiterSlots :
          waiters[i] # NoWaiter => rlNow < waiters[i].wakeAt + MaxLateTicks * TickMs
    /\ rlNow' = rlNow + FineMs
    /\ UNCHANGED <<windows, waiters, admittedAt, lastOutcome, slotReleases>>
    /\ UNCHANGED <<fqVars, stVars, tmVars, pmVars, epVars, lsVars>>

\* A caller asks check and calls record when the answer is ok; a refused
\* caller comes back later as another call.
CheckThenRecord(model, estTokens) ==
    /\ IF check(windows, model, estTokens, rlNow).ok
       THEN /\ windows' = record(windows, model, estTokens, rlNow)
            /\ lastOutcome' = "admitted"
       ELSE /\ lastOutcome' = "refused"
            /\ UNCHANGED windows
    /\ UNCHANGED <<rlNow, waiters, admittedAt, slotReleases>>
    /\ UNCHANGED <<fqVars, stVars, tmVars, pmVars, epVars, lsVars>>

NextRLFine ==
    \/ \E m \in DOMAIN windows, tok \in TokenSizes : CheckThenRecord(m, tok)
    \/ TickRL
    \/ TickFine

(***************************************************************************)
(* Part 3: the streaming engine for one streaming request of               *)
(* handleCompletions (server.mjs): worker attempts (pipeStream), the       *)
(* quick-fail retry, the fallback relay (streamFromFallbackApi), and the   *)
(* bytes the client receives.  Elapsed time is abstracted to the flag      *)
(* `slow` (QUICK_FAIL_MS have passed since the spawn) of each attempt.     *)
(***************************************************************************)

_workerPool == <<"1", "2">>
PRIMARY_WORKER == "2"
WorkerNames == {_workerPool[i] : i \in 1..Len(_workerPool)}
MAX_RETRIES == Len(_workerPool)
StdoutEvents == {"delta", "assistant", "result", "other"}
BufferKinds == {"assistant", "result"}
UpstreamLines == {"delta", "finish", "DONE"}
MaxLines == 2
MaxFbLines == 2
MaxSpawnFailures == 1
MaxSpawnFailuresConns == 2
MaxLinesSpawnFail == 1

ST ==
    [started |-> started, writableEnded |-> writableEnded, clientClosed |-> clientClosed,
     out |-> out, retryCount |-> retryCount, triedRouters |-> triedRouters,
     activeProc |-> activeProc, releaseCalls |-> releaseCalls, attempts |-> attempts,
     fallbacks |-> fallbacks, limitedSeq |-> limitedSeq,
     _loadBalanceMode |-> _loadBalanceMode, _activeConns |-> _activeConns,
     workerRequests |-> workerRequests, streamRetries |-> streamRetries,
     endedBy |-> endedBy]

SetST(S) ==
    /\ started' = S.started
    /\ writableEnded' = S.writableEnded
    /\ clientClosed' = S.clientClosed
    /\ out' = S.out
    /\ retryCount' = S.retryCount
    /\ triedRouters' = S.triedRouters
    /\ activeProc' = S.activeProc
    /\ releaseCalls' = S.releaseCalls
    /\ attempts' = S.attempts
    /\ fallbacks' = S.fallbacks
    /\ limitedSeq' = S.limitedSeq
    /\ _loadBalanceMode' = S._loadBalanceMode
    /\ _activeConns' = S._activeConns
    /\ workerRequests' = S.workerRequests
    /\ streamRetries' = S.streamRetries
    /\ endedBy' = S.endedBy
    /\ UNCHANGED <<lineLimit, spawnLimit>>

SeqToSet(s) == {s[i] : i \in 1..Len(s)}

isLimited(S, name) == name \in SeqToSet(S.limitedSeq)

\* Array.prototype.find over the worker list: the first element of `hits`, the
\* workers satisfying the predicate in pool order, or "" (undefined).
FindWorker(hits) == IF hits = <<>> THEN "" ELSE hits[1]

workerAcquire(S, name) == [S EXCEPT !._activeConns[name] = @ + 1]

workerRelease(S, name) == [S EXCEPT !._activeConns[name] = MaxOf(0, @ - 1)]

recordWorkerRequest(S, name) == [S EXCEPT !.workerRequests[name] = @ + 1]

RECURSIVE leastLoadedFrom(_, _, _, _)
leastLoadedFrom(S, pool, i, best) ==
    IF i > Len(pool) THEN best
    ELSE LET c == S._activeConns[pool[i]]
             t == S.workerRequests[pool[i]]
         IN  IF c < S._activeConns[best]
                  \/ (c = S._activeConns[best] /\ t < S.workerRequests[best])
             THEN leastLoadedFrom(S, pool, i + 1, pool[i])
             ELSE leastLoadedFrom(S, pool, i + 1, best)

\* leastLoadedWorker with the scan starting one element too late.
leastLoadedWorkerSkipsSecond(S, pool) == leastLoadedFrom(S, pool, 3, pool[1])

leastLoadedWorker(S, pool) == leastLoadedFrom(S, pool, 2, pool[1])

\* getNextWorker with the affinity worker preferred on a tie of connections.
getNextWorkerAffinityOnTie(S, affinityName) ==
    LET healthy == SelectSeq(_workerPool, LAMBDA w : ~isLimited(S, w))
    IN  IF healthy = <<>> THEN S.limitedSeq[1]
        ELSE IF Len(healthy) = 1 THEN healthy[1]
        ELSE IF ~S._loadBalanceMode
        THEN IF PRIMARY_WORKER \in SeqToSet(healthy) THEN PRIMARY_WORKER ELSE healthy[1]
        ELSE LET least == leastLoadedWorker(S, healthy)
             IN  IF /\ affinityName \in WorkerNames
                    /\ ~isLimited(S, affinityName)
                    /\ S._activeConns[affinityName] <= S._activeConns[least]
                 THEN affinityName
                 ELSE least

\* getNextWorker; the session-affinity branch returns the affinity worker only
\* when it has strictly fewer connections than the least loaded worker.
getNextWorker(S, affinityName) ==
    LET healthy == SelectSeq(_workerPool, LAMBDA w : ~isLimited(S, w))
    IN  IF healthy = <<>> THEN S.limitedSeq[1]
        ELSE IF Len(healthy) = 1 THEN healthy[1]
        ELSE IF ~S._loadBalanceMode
        THEN IF PRIMARY_WORKER \in SeqToSet(healthy) THEN PRIMARY_WORKER ELSE healthy[1]
        ELSE LET least == leastLoadedWorker(S, healthy)
             IN  IF /\ affinityName \in WorkerNames
                    /\ ~isLimited(S, affinityName)
                    /\ S._activeConns[affinityName] < S._activeConns[least]
                 THEN affinityName
                 ELSE least

markWorkerLimited(S, workerName) ==
    IF isLimited(S, workerName) THEN S
    ELSE [S EXCEPT !.limitedSeq = Append(@, workerName), !._loadBalanceMode = FALSE]

getAlternateWorker(S, excludeName) ==
    FindWorker(SelectSeq(_workerPool, LAMBDA w : w # excludeName /\ ~isLimited(S, w)))

\* _workerPool.find(untried and healthy) || getAlternateWorker(worker)
retryTarget(S, workerName) ==
    LET untried == FindWorker(SelectSeq(_workerPool,
                              LAMBDA w : w \notin S.triedRouters /\ ~isLimited(S, w)))
    IN  IF untried # "" THEN untried ELSE getAlternateWorker(S, workerName)

\* The client receives what is written while its connection is up.
Deliver(S, kind, from) ==
    IF S.clientClosed THEN S ELSE [S EXCEPT !.out = Append(@, [kind |-> kind, from |-> from])]

\* if (canWrite) res.write(...) and safeWrite(...)
safeWrite(S, kind, from) == IF S.writableEnded THEN S ELSE Deliver(S, kind, from)

safeEnd(S, by) ==
    IF S.writableEnded THEN S ELSE [S EXCEPT !.writableEnded = TRUE, !.endedBy = by]

\* Content of a worker attempt has reached the client.
HasContent(S) == \E i \in 1..Len(S.out) : S.out[i].kind = "content" /\ S.out[i].from > 0

\* pipeStream(worker, isRetry) up to the registration of the handlers.
pipeStream(S, worker) ==
    LET S1 == workerAcquire(recordWorkerRequest(
                  [S EXCEPT !.triedRouters = @ \cup {worker}], worker), worker)
        proc == [worker |-> worker, sentContent |-> FALSE, buffer |-> "", lines |-> 0,
                 slow |-> FALSE, killed |-> FALSE, spawnFailed |-> FALSE,
                 errorFired |-> FALSE, closeFired |-> FALSE, timedOut |-> FALSE,
                 afterContent |-> HasContent(S)]
    IN  [S1 EXCEPT !.attempts = Append(@, proc), !.activeProc = Len(S.attempts) + 1]

streamFromFallbackApi(S) ==
    [S EXCEPT !.fallbacks = Append(@, [phase |-> "requested", outputChars |-> 0, lines |-> 0])]

release(S) == [S EXCEPT !.releaseCalls = @ + 1]

\* proc.stdout 'data' completing one line of kind `ev` (the buffer is then empty).
stdoutData(S, a, ev) ==
    LET p == S.attempts[a]
        canWrite == ~S.writableEnded
        writes == \/ ev = "delta"
                  \/ ev \in {"assistant", "result"} /\ ~p.sentContent
        S1 == IF writes /\ canWrite THEN Deliver(S, "content", a) ELSE S
    IN  [S1 EXCEPT !.attempts[a].sentContent = @ \/ writes,
                   !.attempts[a].buffer = "",
                   !.attempts[a].lines = @ + 1]

\* The end of the close handler: flush the buffer, then fall back or finish.
finishStream(S, a, code) ==
    LET p == S.attempts[a]
        canWrite == ~S.writableEnded
        flushes == \/ p.buffer = "assistant"
                   \/ p.buffer = "result" /\ ~p.sentContent
        S1 == IF flushes /\ canWrite THEN Deliver(S, "content", a) ELSE S
    IN  IF code # 0 /\ ~p.sentContent
        THEN streamFromFallbackApi(S1)
        ELSE IF canWrite
        THEN safeEnd(Deliver(Deliver(S1, "stop", a), "DONE", a),
                     IF code = 0 THEN "worker_ok" ELSE "worker_failed")
        ELSE S1

\* proc.on("close", code)
closeHandler(S, a, code, rateLimited) ==
    LET p == S.attempts[a]
        S1 == workerRelease([S EXCEPT !.attempts[a].closeFired = TRUE], p.worker)
        alt == retryTarget(S1, p.worker)
    IN  IF code # 0 /\ ~p.sentContent /\ ~p.slow /\ S1.retryCount < MAX_RETRIES /\ alt # ""
        THEN pipeStream([S1 EXCEPT !.retryCount = @ + 1, !.streamRetries = @ + 1], alt)
        ELSE LET S2 == release(S1)
                 S3 == IF rateLimited THEN markWorkerLimited(S2, p.worker) ELSE S2
             IN  finishStream(S3, a, code)

\* proc.on("error", err)
errorHandler(S, a) ==
    LET p == S.attempts[a]
        S1 == workerRelease([S EXCEPT !.attempts[a].errorFired = TRUE,
                                      !.attempts[a].spawnFailed = TRUE], p.worker)
        alt == retryTarget(S1, p.worker)
    IN  IF ~p.sentContent /\ S1.retryCount < MAX_RETRIES /\ alt # ""
        THEN pipeStream([S1 EXCEPT !.retryCount = @ + 1], alt)
        ELSE streamFromFallbackApi(release(S1))

\* The three writes and the end shared by the fallback's terminating handlers.
fallbackFinish(S, f, withError, by) ==
    LET S1 == IF withError THEN safeWrite(S, "errtext", 0 - f) ELSE S
        S2 == safeWrite(safeWrite(S1, "stop", 0 - f), "DONE", 0 - f)
    IN  [safeEnd(S2, by) EXCEPT !.fallbacks[f].phase = "done"]

\* apiRes.on("data") of a 200 response, one upstream line at a time.
fallbackData(S, f, line) ==
    LET S1 == [S EXCEPT !.fallbacks[f].lines = @ + 1]
    IN  CASE line = "DONE" -> safeWrite(S1, "DONE", 0 - f)
          [] line = "delta" -> [safeWrite(S1, "content", 0 - f)
                                   EXCEPT !.fallbacks[f].outputChars = 1]
          [] OTHER -> safeWrite(S1, "finish", 0 - f)

\* apiRes.on("end") of a 200 response and of a non-200 response.
fallbackEnd(S, f) ==
    IF S.fallbacks[f].phase = "non200"
    THEN fallbackFinish(S, f, TRUE, "fallback_error")
    ELSE IF S.fallbacks[f].outputChars = 0
    THEN fallbackFinish(S, f, TRUE, "fallback_error")
    ELSE fallbackFinish(S, f, FALSE, "fallback_ok")

\* A failed spawn emits 'error' and then 'close' before any other event of the
\* request is handled: no attempt is between the two.
NoCloseOwed == \A b \in 1..Len(attempts) : ~(attempts[b].spawnFailed /\ ~attempts[b].closeFired)

SpawnFailures(S) == Cardinality({a \in 1..Len(S.attempts) : S.attempts[a].spawnFailed})

InitStream ==
    /\ started = FALSE
    /\ writableEnded = FALSE
    /\ clientClosed = FALSE
    /\ out = <<>>
    /\ retryCount = 0
    /\ triedRouters = {}
    /\ activeProc = 0
    /\ releaseCalls = 0
    /\ attempts = <<>>
    /\ fallbacks = <<>>
    /\ limitedSeq = <<>>
    /\ _loadBalanceMode = TRUE
    /\ _activeConns = [w \in WorkerNames |-> 0]
    /\ workerRequests = [w \in WorkerNames |-> 0]
    /\ streamRetries = 0
    /\ endedBy = "none"

\* Runs in which every spawn succeeds.
InitStreamSpawned == InitStream /\ lineLimit = MaxLines /\ spawnLimit = 0

\* Runs in which spawns may fail ('error' followed by 'close').
InitStreamSpawnFail == InitStream /\ lineLimit = MaxLinesSpawnFail /\ spawnLimit = MaxSpawnFailures

\* Another request's worker was found rate limited before this request starts.
OtherRequestLimitsWorker(w) ==
    /\ ~started
    /\ limitedSeq = <<>>
    /\ SetST(markWorkerLimited(ST, w))
    /\ UNCHANGED <<fqVars, rlVars, tmVars, pmVars, epVars, lsVars>>

\* handleCompletions, stream branch: headers, then pipeStream(null, false).
StartStream(affinityName) ==
    /\ ~started
    /\ SetST(pipeStream([ST EXCEPT !.started = TRUE], getNextWorker(ST, affinityName)))
    /\ UNCHANGED <<fqVars, rlVars, tmVars, pmVars, epVars, lsVars>>

\* A data event that ends a line: the line buffered so far, or a new one.
StdoutData(a, ev) ==
    /\ NoCloseOwed
    /\ a \in 1..Len(attempts)
    /\ ~attempts[a].closeFired /\ ~attempts[a].spawnFailed
    /\ attempts[a].lines < lineLimit
    /\ attempts[a].buffer # "" => ev = attempts[a].buffer
    /\ SetST(stdoutData(ST, a, ev))
    /\ UNCHANGED <<fqVars, rlVars, tmVars, pmVars, epVars, lsVars>>

\* A data event that ends in the middle of a line of kind `kind`.
StdoutPartial(a, kind) ==
    /\ NoCloseOwed
    /\ a \in 1..Len(attempts)
    /\ ~attempts[a].closeFired /\ ~attempts[a].spawnFailed
    /\ attempts[a].lines < lineLimit
    /\ attempts[a].buffer = ""
    /\ SetST([ST EXCEPT !.attempts[a].buffer = kind])
    /\ UNCHANGED <<fqVars, rlVars, tmVars, pmVars, epVars, lsVars>>

\* Five seconds have passed since the spawn of attempt a.
QuickFailWindowOver(a) ==
    /\ NoCloseOwed
    /\ a \in 1..Len(attempts)
    /\ ~attempts[a].closeFired /\ ~attempts[a].slow
    /\ SetST([ST EXCEPT !.attempts[a].slow = TRUE])
    /\ UNCHANGED <<fqVars, rlVars, tmVars, pmVars, epVars, lsVars>>

\* The heartbeat timer or the execution timer of attempt a fires.
StreamTimeout(a) ==
    /\ NoCloseOwed
    /\ a \in 1..Len(attempts)
    /\ attempts[a].slow
    /\ ~attempts[a].closeFired /\ ~attempts[a].errorFired /\ ~attempts[a].killed
    /\ SetST([ST EXCEPT !.attempts[a].killed = TRUE, !.attempts[a].timedOut = TRUE])
    /\ UNCHANGED <<fqVars, rlVars, tmVars, pmVars, epVars, lsVars>>

\* res.on("close") while the response is open: the client went away.
ClientDisconnect ==
    /\ NoCloseOwed
    /\ started /\ ~clientClosed /\ ~writableEnded
    /\ SetST([ST EXCEPT !.clientClosed = TRUE,
                        !.attempts = [i \in 1..Len(@) |->
                            IF i = activeProc /\ ~@[i].closeFired
                            THEN [@[i] EXCEPT !.killed = TRUE] ELSE @[i]]])
    /\ UNCHANGED <<fqVars, rlVars, tmVars, pmVars, epVars, lsVars>>

\* The spawn of attempt a fails: the process emits 'error' (and later 'close').
ProcError(a) ==
    /\ NoCloseOwed
    /\ a \in 1..Len(attempts)
    /\ ~attempts[a].errorFired /\ ~attempts[a].closeFired
    /\ attempts[a].lines = 0
    /\ SpawnFailures(ST) < spawnLimit
    /\ SetST(errorHandler(ST, a))
    /\ UNCHANGED <<fqVars, rlVars, tmVars, pmVars, epVars, lsVars>>

ProcClose(a, code, rateLimited) ==
    /\ a \in 1..Len(attempts)
    /\ ~attempts[a].closeFired
    /\ attempts[a].spawnFailed \/ NoCloseOwed
    /\ attempts[a].spawnFailed => (code # 0 /\ ~rateLimited)
    /\ SetST(closeHandler(ST, a, code, rateLimited))
    /\ UNCHANGED <<fqVars, rlVars, tmVars, pmVars, epVars, lsVars>>

FallbackResponse(f, status) ==
    /\ NoCloseOwed
    /\ f \in 1..Len(fallbacks)
    /\ fallbacks[f].phase = "requested"
    /\ SetST([ST EXCEPT !.fallbacks[f].phase = IF status = 200 THEN "streaming" ELSE "non200"])
    /\ UNCHANGED <<fqVars, rlVars, tmVars, pmVars, epVars, lsVars>>

FallbackData(f, line) ==
    /\ NoCloseOwed
    /\ f \in 1..Len(fallbacks)
    /\ fallbacks[f].phase = "streaming"
    /\ fallbacks[f].lines < MaxFbLines
    /\ SetST(fallbackData(ST, f, line))
    /\ UNCHANGED <<fqVars, rlVars, tmVars, pmVars, epVars, lsVars>>

FallbackEnd(f) ==
    /\ NoCloseOwed
    /\ f \in 1..Len(fallbacks)
    /\ fallbacks[f].phase \in {"streaming", "non200"}
    /\ SetST(fallbackEnd(ST, f))
    /\ UNCHANGED <<fqVars, rlVars, tmVars, pmVars, epVars, lsVars>>

\* apiReq.on("error"): the fallback endpoint is unreachable or the connection broke.
FallbackNetError(f) ==
    /\ NoCloseOwed
    /\ f \in 1..Len(fallbacks)
    /\ fallbacks[f].phase # "done"
    /\ SetST(fallbackFinish(ST, f, TRUE, "fallback_error"))
    /\ UNCHANGED <<fqVars, rlVars, tmVars, pmVars, epVars, lsVars>>

NextStream ==
    \/ \E w \in WorkerNames : OtherRequestLimitsWorker(w)
    \/ \E aff \in WorkerNames \cup {""} : StartStream(aff)
    \/ \E a \in 1..(MAX_RETRIES + 1), ev \in StdoutEvents : StdoutData(a, ev)
    \/ \E a \in 1..(MAX_RETRIES + 1), kind \in BufferKinds : StdoutPartial(a, kind)
    \/ \E a \in 1..(MAX_RETRIES + 1) : QuickFailWindowOver(a)
    \/ \E a \in 1..(MAX_RETRIES + 1) : StreamTimeout(a)
    \/ ClientDisconnect
    \/ \E a \in 1..(MAX_RETRIES + 1), code \in {0, 1}, rl \in BOOLEAN : ProcClose(a, code, rl)
    \/ \E f \in 1..Len(fallbacks), status \in {200, 500} : FallbackResponse(f, status)
    \/ \E f \in 1..Len(fallbacks), line \in UpstreamLines : FallbackData(f, line)
    \/ \E f \in 1..Len(fallbacks) : FallbackEnd(f)
    \/ \E f \in 1..Len(fallbacks) : FallbackNetError(f)

NextStreamSpawnFail ==
    \/ \E aff \in WorkerNames \cup {""} : StartStream(aff)
    \/ \E a \in 1..(MAX_RETRIES + 1), ev \in StdoutEvents : StdoutData(a, ev)
    \/ \E a \in 1..(MAX_RETRIES + 1) : QuickFailWindowOver(a)
    \/ \E a \in 1..(MAX_RETRIES + 1) : ProcError(a)
    \/ \E a \in 1..(MAX_RETRIES + 1), code \in {0, 1}, rl \in BOOLEAN : ProcClose(a, code, rl)
    \/ \E f \in 1..Len(fallbacks), status \in {200, 500} : FallbackResponse(f, status)
    \/ \E f \in 1..Len(fallbacks), line \in UpstreamLines : FallbackData(f, line)
    \/ \E f \in 1..Len(fallbacks) : FallbackEnd(f)
    \/ \E f \in 1..Len(fallbacks) : FallbackNetError(f)

\* The connection accounting of a request whose spawns may fail more than
\* once: the workers write nothing, they only fail or exit, and the fallback
\* endpoint does not answer while the workers run.
InitStreamConns == InitStream /\ lineLimit = 0 /\ spawnLimit = MaxSpawnFailuresConns

NextStreamConns ==
    \/ \E aff \in WorkerNames \cup {""} : StartStream(aff)
    \/ \E a \in 1..(MAX_RETRIES + 1) : QuickFailWindowOver(a)
    \/ \E a \in 1..(MAX_RETRIES + 1) : ProcError(a)
    \/ \E a \in 1..(MAX_RETRIES + 1), code \in {0, 1}, rl \in BOOLEAN : ProcClose(a, code, rl)

\* The worker accounting under many requests (runCliOnce and pipeStream of
\* any request): a request is routed and its process later closes.
MaxWorkerRequests == 4

\* const worker = workerOverride || getNextWorker(sessionKey); then
\* recordWorkerRequest and workerAcquire.  override = "" stands for null.
RouteRequest(affinityName, override) ==
    LET worker == IF override # "" THEN override ELSE getNextWorker(ST, affinityName)
    IN  /\ workerRequests[worker] < MaxWorkerRequests
        /\ SetST(workerAcquire(recordWorkerRequest(ST, worker), worker))
        /\ UNCHANGED <<fqVars, rlVars, tmVars, pmVars, epVars, lsVars>>

\* A 'close' or 'error' handler of a process of worker w runs workerRelease.
WorkerDone(w) ==
    /\ SetST(workerRelease(ST, w))
    /\ UNCHANGED <<fqVars, rlVars, tmVars, pmVars, epVars, lsVars>>

NextWorkers ==
    \/ \E aff \in WorkerNames \cup {""}, override \in WorkerNames \cup {""} :
           RouteRequest(aff, override)
    \/ \E w \in WorkerNames : WorkerDone(w)

(***************************************************************************)
(* Part 4: the timers.  The SSE keepalive of a streaming attempt           *)
(* (server.mjs, pipeStream): an interval that writes a comment line every  *)
(* 5 s and is replaced by a 30 s interval at the first stdout data event.  *)
(* Timers fire on time; the clock advances in steps of TickKaMs.           *)
(***************************************************************************)

FAST_KEEPALIVE_MS == 5000
SLOW_KEEPALIVE_MS == 30000
TickKaMs == 1000
MaxTicksKa == 45
MaxAttemptsKa == 2

\* The part of pipeStream that sets keepaliveMs and keepaliveInterval.
startKeepalive ==
    /\ kaRunning' = TRUE
    /\ keepaliveMs' = FAST_KEEPALIVE_MS
    /\ kaDueAt' = kaNow + FAST_KEEPALIVE_MS
    /\ kaAttempts' = kaAttempts + 1

\* slowDownKeepalive(): the interval is replaced only on the first call.
slowDownKeepalive ==
    IF keepaliveMs = FAST_KEEPALIVE_MS
    THEN /\ keepaliveMs' = SLOW_KEEPALIVE_MS
         /\ kaDueAt' = kaNow + SLOW_KEEPALIVE_MS
    ELSE UNCHANGED <<keepaliveMs, kaDueAt>>

\* The worker health check (server.mjs 278-322): a limited worker recovers
\* at the first run of the health timer at which its cooldown has elapsed.
HEALTH_CHECK_MS == 600000
HealthPeriod == MinOf(HEALTH_CHECK_MS, 60000)
TickHMs == 30000
MaxTicksH == 23

InitTimed ==
    /\ kaNow = 0
    /\ kaRunning = FALSE
    /\ keepaliveMs = FAST_KEEPALIVE_MS
    /\ kaDueAt = 0
    /\ lastByteAt = 0
    /\ kaAttempts = 0
    /\ hNow = 0
    /\ limitedAt = [w \in WorkerNames |-> 0]
    /\ nextHealthAt = HealthPeriod
    /\ limitedSince = [w \in WorkerNames |-> -1]
    /\ recoveredAfter = [w \in WorkerNames |-> -1]
    /\ lastHealthAt = -1

\* The handler writes the SSE headers and calls pipeStream(null, false).
KaStart ==
    /\ ~kaRunning /\ kaAttempts = 0
    /\ startKeepalive
    /\ lastByteAt' = kaNow
    /\ UNCHANGED <<kaNow>>
    /\ UNCHANGED <<fqVars, rlVars, stVars, hVars, pmVars, epVars, lsVars>>

\* keepaliveInterval fires: a comment line is written while the response is open.
KeepaliveFire ==
    /\ kaRunning /\ kaNow >= kaDueAt
    /\ lastByteAt' = kaNow
    /\ kaDueAt' = kaDueAt + keepaliveMs
    /\ UNCHANGED <<kaNow, kaRunning, keepaliveMs, kaAttempts>>
    /\ UNCHANGED <<fqVars, rlVars, stVars, hVars, pmVars, epVars, lsVars>>

\* proc.stdout 'data': slowDownKeepalive(), then the lines are handled; `writes`
\* tells whether one of them made the handler write a delta to the client.
KaStdoutData(writes) ==
    /\ kaRunning
    /\ slowDownKeepalive
    /\ lastByteAt' = IF writes THEN kaNow ELSE lastByteAt
    /\ UNCHANGED <<kaNow, kaRunning, kaAttempts>>
    /\ UNCHANGED <<fqVars, rlVars, stVars, hVars, pmVars, epVars, lsVars>>

\* proc 'close': clearInterval; on a quick-fail retry pipeStream runs again.
KaClose(retry) ==
    /\ kaRunning
    /\ IF retry /\ kaAttempts < MaxAttemptsKa
       THEN startKeepalive
       ELSE kaRunning' = FALSE /\ UNCHANGED <<keepaliveMs, kaDueAt, kaAttempts>>
    /\ UNCHANGED <<kaNow, lastByteAt>>
    /\ UNCHANGED <<fqVars, rlVars, stVars, hVars, pmVars, epVars, lsVars>>

\* Time passes, never beyond the moment a set interval is due.
TickKa ==
    /\ kaNow < MaxTicksKa * TickKaMs
    /\ kaRunning => kaNow < kaDueAt
    /\ kaNow' = kaNow + TickKaMs
    /\ UNCHANGED <<kaRunning, keepaliveMs, kaDueAt, lastByteAt, kaAttempts>>
    /\ UNCHANGED <<fqVars, rlVars, stVars, hVars, pmVars, epVars, lsVars>>

\* markWorkerRecovered(workerName) on the request-side state.
markWorkerRecovered(S, workerName) ==
    IF isLimited(S, workerName)
    THEN [S EXCEPT !.limitedSeq = SelectSeq(@, LAMBDA w : w # workerName),
                   !._loadBalanceMode = TRUE]
    ELSE S

\* h.limitedAt after markWorkerLimited(workerName) at time t, with the guard
\* dropped: every rate-limit failure restarts the cooldown.
limitedAtRestarted(la, S, workerName, t) == [la EXCEPT ![workerName] = t]

\* h.limitedAt after markWorkerLimited(workerName) at time t.
limitedAtMarked(la, S, workerName, t) ==
    IF isLimited(S, workerName) THEN la ELSE [la EXCEPT ![workerName] = t]

\* The workers the health check recovers at time t.
cooledDown(S, la, t) ==
    {w \in WorkerNames : isLimited(S, w) /\ t - la[w] >= HEALTH_CHECK_MS}

\* The health check's loop over the pool, from index i on.
RECURSIVE healthCheckFrom(_, _, _, _)
healthCheckFrom(S, la, t, i) ==
    IF i > Len(_workerPool) THEN S
    ELSE healthCheckFrom(IF _workerPool[i] \in cooledDown(S, la, t)
                         THEN markWorkerRecovered(S, _workerPool[i]) ELSE S,
                         la, t, i + 1)

\* A request's process of worker w fails with a rate-limit error.
MarkLimited(w) ==
    /\ SetST(markWorkerLimited(ST, w))
    /\ limitedAt' = limitedAtMarked(limitedAt, ST, w, hNow)
    /\ limitedSince' = IF isLimited(ST, w) THEN limitedSince
                       ELSE [limitedSince EXCEPT ![w] = hNow]
    /\ UNCHANGED <<hNow, nextHealthAt, recoveredAfter, lastHealthAt>>
    /\ UNCHANGED <<fqVars, rlVars, kaVars, pmVars, epVars, lsVars>>

\* The health check timer fires.
HealthCheck ==
    /\ hNow >= nextHealthAt
    /\ LET rec == cooledDown(ST, limitedAt, hNow)
       IN  /\ SetST(healthCheckFrom(ST, limitedAt, hNow, 1))
           /\ limitedAt' = [w \in WorkerNames |-> IF w \in rec THEN 0 ELSE limitedAt[w]]
           /\ limitedSince' = [w \in WorkerNames |->
                                  IF w \in rec THEN -1 ELSE limitedSince[w]]
           /\ recoveredAfter' = [w \in WorkerNames |->
                                    IF w \in rec THEN hNow - limitedSince[w]
                                    ELSE recoveredAfter[w]]
    /\ nextHealthAt' = nextHealthAt + HealthPeriod
    /\ lastHealthAt' = hNow
    /\ UNCHANGED <<hNow>>
    /\ UNCHANGED <<fqVars, rlVars, kaVars, pmVars, epVars, lsVars>>

\* Time passes, never beyond the moment the health check is due.
TickH ==
    /\ hNow < MaxTicksH * TickHMs
    /\ hNow < nextHealthAt
    /\ hNow' = hNow + TickHMs
    /\ UNCHANGED <<limitedAt, nextHealthAt, limitedSince, recoveredAfter, lastHealthAt>>
    /\ UNCHANGED <<fqVars, rlVars, stVars, kaVars, pmVars, epVars, lsVars>>

NextHealth ==
    \/ \E w \in WorkerNames : MarkLimited(w)
    \/ HealthCheck
    \/ TickH

NextKeepalive ==
    \/ KaStart
    \/ KeepaliveFire
    \/ \E writes \in BOOLEAN : KaStdoutData(writes)
    \/ \E retry \in BOOLEAN : KaClose(retry)
    \/ TickKa

(***************************************************************************)
(* Part 5: the CLI processes.  The process registry (process-registry.mjs) *)
(* tracks every spawned process by pid and reaps those that are too old or *)
(* idle; the warm pool (worker-pool.mjs) keeps pre-spawned processes for a *)
(* key and hands them to requests; shutdown (server.mjs) stops both.       *)
(***************************************************************************)

TickPmMs == 30000
MaxTicksPm == 4
maxProcessAgeMs == 90000
maxIdleMs == 30000
Pids == {1, 2}
NoReap == [reported |-> {}, undelivered |-> {}, ran |-> FALSE]

NoAcquire == [hit |-> 0, staleKills |-> {}, skipped |-> {}]

InitProcs ==
    /\ pmNow = 0
    /\ registryEntries = <<>>
    /\ osAlive = {}
    /\ closeOwed = {}
    /\ reaperInterval = TRUE
    /\ lastReap = NoReap
    /\ pools = <<>>
    /\ pendingWarmUps = 0
    /\ sweepTimer = TRUE
    /\ shutdownCalled = FALSE
    /\ spawnedAfterShutdown = FALSE
    /\ lastAcquire = NoAcquire

register(E, pid, t) ==
    [p \in DOMAIN E \cup {pid} |->
        IF p = pid THEN [spawnedAt |-> t, lastActivityAt |-> t] ELSE E[p]]

unregister(E, pid) == RemoveKey(E, pid)

touch(E, pid, t) ==
    IF pid \in DOMAIN E THEN [E EXCEPT ![pid].lastActivityAt = t] ELSE E

getZombies(E, t) ==
    {pid \in DOMAIN E : \/ t - E[pid].spawnedAt > maxProcessAgeMs
                        \/ t - E[pid].lastActivityAt > maxIdleMs}

\* kill that keeps the entry of a pid it could not signal.
killKeepsUnsignalled(E, alive, pid) ==
    [killed |-> pid \in alive,
     entries |-> IF pid \in alive THEN unregister(E, pid) ELSE E,
     alive |-> alive \ {pid}]

\* process.kill(pid, "SIGTERM") throws when no such process exists; the entry
\* is unregistered either way.
kill(E, alive, pid) ==
    [killed |-> pid \in alive, entries |-> unregister(E, pid), alive |-> alive \ {pid}]

RECURSIVE killAll(_, _, _)
killAll(E, alive, todo) ==
    IF todo = {} THEN [entries |-> E, alive |-> alive]
    ELSE LET pid == CHOOSE p \in todo : \A q \in todo : p <= q
             k == kill(E, alive, pid)
         IN  killAll(k.entries, k.alive, todo \ {pid})

reap(E, alive, t) ==
    LET zombies == getZombies(E, t)
        after == killAll(E, alive, zombies)
    IN  [entries |-> after.entries, alive |-> after.alive,
         reported |-> zombies, undelivered |-> zombies \ alive]

\* A request spawns a CLI process and registers its pid.
RegSpawn(pid) ==
    /\ pid \notin osAlive /\ pid \notin DOMAIN registryEntries /\ pid \notin closeOwed
    /\ osAlive' = osAlive \cup {pid}
    /\ registryEntries' = register(registryEntries, pid, pmNow)
    /\ UNCHANGED <<pmNow, closeOwed, reaperInterval, lastReap, pools, pendingWarmUps,
                   sweepTimer, shutdownCalled, spawnedAfterShutdown>>
    /\ UNCHANGED lastAcquire
    /\ UNCHANGED <<fqVars, rlVars, stVars, tmVars, epVars, lsVars>>

\* The process writes to stdout: the handler touches its entry.
RegTouch(pid) ==
    /\ pid \in osAlive /\ pid \in DOMAIN registryEntries
    /\ registryEntries' = touch(registryEntries, pid, pmNow)
    /\ UNCHANGED <<pmNow, osAlive, closeOwed, reaperInterval, lastReap, pools,
                   pendingWarmUps, sweepTimer, shutdownCalled,
                   spawnedAfterShutdown>>
    /\ UNCHANGED lastAcquire
    /\ UNCHANGED <<fqVars, rlVars, stVars, tmVars, epVars, lsVars>>

\* The process exits by itself; its 'close' event is still to be handled.
RegExit(pid) ==
    /\ pid \in osAlive
    /\ osAlive' = osAlive \ {pid}
    /\ closeOwed' = closeOwed \cup {pid}
    /\ UNCHANGED <<pmNow, registryEntries, reaperInterval, lastReap, pools, pendingWarmUps,
                   sweepTimer, shutdownCalled, spawnedAfterShutdown>>
    /\ UNCHANGED lastAcquire
    /\ UNCHANGED <<fqVars, rlVars, stVars, tmVars, epVars, lsVars>>

\* The 'close' listener of an ended process unregisters its pid.
RegClose(pid) ==
    /\ pid \in closeOwed
    /\ registryEntries' = unregister(registryEntries, pid)
    /\ closeOwed' = closeOwed \ {pid}
    /\ UNCHANGED <<pmNow, osAlive, reaperInterval, lastReap, pools, pendingWarmUps,
                   sweepTimer, shutdownCalled, spawnedAfterShutdown>>
    /\ UNCHANGED lastAcquire
    /\ UNCHANGED <<fqVars, rlVars, stVars, tmVars, epVars, lsVars>>

\* The reaper interval fires (or reap is called); a signalled process ends.
Reap ==
    /\ reaperInterval
    /\ LET r == reap(registryEntries, osAlive, pmNow)
       IN  /\ registryEntries' = r.entries
           /\ osAlive' = r.alive
           /\ closeOwed' = closeOwed \cup (osAlive \ r.alive)
           /\ lastReap' = [reported |-> r.reported, undelivered |-> r.undelivered,
                           ran |-> TRUE]
    /\ UNCHANGED <<pmNow, reaperInterval, pools, pendingWarmUps, sweepTimer,
                   shutdownCalled, spawnedAfterShutdown>>
    /\ UNCHANGED lastAcquire
    /\ UNCHANGED <<fqVars, rlVars, stVars, tmVars, epVars, lsVars>>

\* Time passes; callbacks queued by setImmediate have run before it does.
TickPm ==
    /\ pmNow < MaxTicksPm * TickPmMs
    /\ pendingWarmUps = 0
    /\ pmNow' = pmNow + TickPmMs
    /\ lastReap' = NoReap
    /\ UNCHANGED <<registryEntries, osAlive, closeOwed, reaperInterval, pools,
                   pendingWarmUps, sweepTimer, shutdownCalled,
                   spawnedAfterShutdown>>
    /\ lastAcquire' = NoAcquire
    /\ UNCHANGED <<fqVars, rlVars, stVars, tmVars, epVars, lsVars>>

NextRegistry ==
    \/ \E pid \in Pids : RegSpawn(pid)
    \/ \E pid \in Pids : RegTouch(pid)
    \/ \E pid \in Pids : RegExit(pid)
    \/ \E pid \in Pids : RegClose(pid)
    \/ Reap
    \/ TickPm

(***************************************************************************)
(* The warm pool of one key (model, stream, worker).                        *)

maxWarmPerKey == 2
maxWarmAgeMs == 30000
PrewarmCount == 1
MaxPending == 3
MaxWarmPids == 4
WarmPids == 1..MaxWarmPids

isAlive(alive, pid) == pid \in alive
AliveWarm(pool, alive) == SelectSeq(pool, LAMBDA e : isAlive(alive, e.pid))
WarmPidsOf(pool) == {pool[i].pid : i \in 1..Len(pool)}

\* The pool state the helpers thread: the pool of the key, the live
\* processes, the pids still known to a handler, whether a process was
\* spawned after shutdown, and the pid handed out.
WP ==
    [pool |-> pools, alive |-> osAlive, known |-> closeOwed \cup DOMAIN registryEntries,
     late |-> spawnedAfterShutdown, hit |-> 0]

\* The pids the system can give to a new process.
FreePids(S) == WarmPids \ (S.alive \cup S.known \cup WarmPidsOf(S.pool))
NewPid(S) == CHOOSE p \in FreePids(S) : \A q \in FreePids(S) : p <= q

\* spawn(): a new process with a pid of its own.
spawned(S, down) ==
    [S EXCEPT !.alive = @ \cup {NewPid(S)}, !.late = @ \/ down]

\* warmUp that spawns whatever the pool holds.
warmUpUnbounded(S, t, down) ==
    IF FreePids(S) = {}
    THEN S
    ELSE [spawned(S, down) EXCEPT !.pool = Append(S.pool, [pid |-> NewPid(S), createdAt |-> t])]

\* warmUp: nothing when the key has maxWarmPerKey live entries or the spawn
\* yields no pid.
warmUp(S, t, down) ==
    IF Len(AliveWarm(S.pool, S.alive)) >= maxWarmPerKey \/ FreePids(S) = {}
    THEN S
    ELSE [spawned(S, down) EXCEPT !.pool = Append(S.pool, [pid |-> NewPid(S), createdAt |-> t])]

RECURSIVE prewarm(_, _, _)
prewarm(S, n, t) == IF n = 0 THEN S ELSE prewarm(warmUp(S, t, FALSE), n - 1, t)

\* The while loop of acquire: shift entries until a live, fresh one is found;
\* dead ones are skipped, stale ones are signalled.
RECURSIVE warmAcquire(_, _)
staleAtAcquireLate(entry, t) == t - entry.createdAt > maxWarmAgeMs + TickPmMs

\* acquire(): "age > maxWarmAgeMs" of the entry just shifted off the pool.
staleAtAcquire(entry, t) == t - entry.createdAt > maxWarmAgeMs

warmAcquire(S, t) ==
    IF S.pool = <<>> THEN [S EXCEPT !.hit = 0]
    ELSE LET entry == Head(S.pool)
             rest == [S EXCEPT !.pool = Tail(S.pool)]
         IN  IF ~isAlive(S.alive, entry.pid) THEN warmAcquire(rest, t)
             ELSE IF staleAtAcquire(entry, t)
             THEN warmAcquire([rest EXCEPT !.alive = @ \ {entry.pid}], t)
             ELSE [rest EXCEPT !.hit = entry.pid]

\* sweep(): dead entries are dropped, stale ones dropped and signalled.
warmSweep(S, t) ==
    LET stale == {e \in {S.pool[i] : i \in 1..Len(S.pool)} :
                    isAlive(S.alive, e.pid) /\ t - e.createdAt > maxWarmAgeMs}
    IN  [S EXCEPT !.pool = SelectSeq(S.pool, LAMBDA e : isAlive(S.alive, e.pid)
                                                         /\ e \notin stale),
                  !.alive = @ \ {e.pid : e \in stale}]

\* spawnCliStream and trackStreamProc: a warm process, or else a fresh one.
spawnCli(S, t, down) ==
    LET a == warmAcquire(S, t)
    IN  IF a.hit # 0 THEN a ELSE [spawned(a, down) EXCEPT !.hit = NewPid(a)]

\* The server has started: the listen callback has pre-warmed the key.
InitProcsWarm ==
    /\ pmNow = 0
    /\ registryEntries = <<>>
    /\ closeOwed = {}
    /\ reaperInterval = TRUE
    /\ lastReap = NoReap
    /\ shutdownCalled = FALSE
    /\ LET S == prewarm([pool |-> <<>>, alive |-> {}, known |-> {}, late |-> FALSE, hit |-> 0],
                        PrewarmCount, 0)
       IN  /\ pools = S.pool
           /\ osAlive = S.alive
    /\ pendingWarmUps = 0
    /\ sweepTimer = TRUE
    /\ spawnedAfterShutdown = FALSE
    /\ lastAcquire = NoAcquire

\* History only: stats.hits / stats.staleKills of one acquire call, as the pid
\* handed out (0 on a miss), the pids signalled as stale and the dead pids
\* skipped.
acquireStats(S, a) ==
    LET gone == {S.pool[i].pid : i \in 1..(Len(S.pool) - Len(a.pool))} \ {a.hit}
    IN  [hit |-> a.hit, staleKills |-> S.alive \ a.alive, skipped |-> gone \ S.alive]

\* An attempt of a request starts: it takes a process and registers its pid;
\* acquire has queued a warmUp for the key.
startAttempt(E) ==
    LET S == spawnCli(WP, pmNow, shutdownCalled)
    IN  /\ pools' = S.pool
        /\ osAlive' = S.alive
        /\ spawnedAfterShutdown' = S.late
        /\ registryEntries' = register(E, S.hit, pmNow)
        /\ pendingWarmUps' = pendingWarmUps + 1
        /\ lastAcquire' = acquireStats(WP, warmAcquire(WP, pmNow))

\* The run admits an attempt: fewer than MaxPending warmUps are queued, and
\* pids are free for a fresh process and for every warmUp then queued.
CanStartAttempt ==
    /\ pendingWarmUps < MaxPending
    /\ Cardinality(FreePids(warmAcquire(WP, pmNow))) >= pendingWarmUps + 2

WarmRequest ==
    /\ ~shutdownCalled
    /\ CanStartAttempt
    /\ startAttempt(registryEntries)
    /\ UNCHANGED <<pmNow, closeOwed, reaperInterval, lastReap, sweepTimer, shutdownCalled>>
    /\ UNCHANGED <<fqVars, rlVars, stVars, tmVars, epVars, lsVars>>

\* The 'close' of a request's process: its pid is unregistered and the
\* request either ends or, when the attempt failed early, tries again.
WorkerClose(pid, retry) ==
    /\ pid \in closeOwed /\ pid \notin WarmPidsOf(pools)
    /\ closeOwed' = closeOwed \ {pid}
    /\ IF retry /\ CanStartAttempt
       THEN startAttempt(unregister(registryEntries, pid))
       ELSE /\ registryEntries' = unregister(registryEntries, pid)
            /\ UNCHANGED <<pools, osAlive, spawnedAfterShutdown, pendingWarmUps,
                           lastAcquire>>
    /\ UNCHANGED <<pmNow, reaperInterval, lastReap, sweepTimer, shutdownCalled>>
    /\ UNCHANGED <<fqVars, rlVars, stVars, tmVars, epVars, lsVars>>

\* The process of a request exits.
WorkerExit(pid) ==
    /\ pid \in DOMAIN registryEntries
    /\ RegExit(pid)

\* A process dies while warm; its 'close' event is still to be handled.
WarmExit(pid) ==
    /\ pid \in WarmPidsOf(pools)
    /\ RegExit(pid)

\* The 'close' of a process that died while warm: cleanup drops its entry.
WarmCleanup(pid) ==
    /\ pid \in closeOwed /\ pid \in WarmPidsOf(pools)
    /\ closeOwed' = closeOwed \ {pid}
    /\ pools' = SelectSeq(pools, LAMBDA e : e.pid # pid)
    /\ UNCHANGED <<pmNow, registryEntries, osAlive, reaperInterval, lastReap,
                   pendingWarmUps, sweepTimer, shutdownCalled, spawnedAfterShutdown>>
    /\ UNCHANGED lastAcquire
    /\ UNCHANGED <<fqVars, rlVars, stVars, tmVars, epVars, lsVars>>

\* A warmUp queued by setImmediate runs.
WarmUpFire ==
    /\ pendingWarmUps > 0
    /\ pendingWarmUps' = pendingWarmUps - 1
    /\ LET S == warmUp(WP, pmNow, shutdownCalled)
       IN  /\ pools' = S.pool
           /\ osAlive' = S.alive
           /\ spawnedAfterShutdown' = S.late
    /\ UNCHANGED <<pmNow, registryEntries, closeOwed, reaperInterval, lastReap,
                   sweepTimer, shutdownCalled>>
    /\ UNCHANGED lastAcquire
    /\ UNCHANGED <<fqVars, rlVars, stVars, tmVars, epVars, lsVars>>

\* The sweep interval fires.
WarmSweep ==
    /\ sweepTimer
    /\ LET S == warmSweep(WP, pmNow)
       IN  /\ pools' = S.pool
           /\ osAlive' = S.alive
    /\ UNCHANGED <<pmNow, registryEntries, closeOwed, reaperInterval, lastReap,
                   pendingWarmUps, sweepTimer, shutdownCalled, spawnedAfterShutdown>>
    /\ UNCHANGED lastAcquire
    /\ UNCHANGED <<fqVars, rlVars, stVars, tmVars, epVars, lsVars>>

\* shutdown(signal): every registered pid is killed, the warm pool is shut
\* down (timer cleared, entries signalled, pools cleared), the reaper stopped.
Shutdown ==
    /\ ~shutdownCalled
    /\ shutdownCalled' = TRUE
    /\ LET k == killAll(registryEntries, osAlive, DOMAIN registryEntries)
       IN  /\ registryEntries' = k.entries
           /\ osAlive' = k.alive \ WarmPidsOf(pools)
           /\ closeOwed' = (closeOwed \cup (osAlive \ k.alive)) \ WarmPidsOf(pools)
    /\ pools' = <<>>
    /\ sweepTimer' = FALSE
    /\ reaperInterval' = FALSE
    /\ UNCHANGED <<pmNow, lastReap, pendingWarmUps, spawnedAfterShutdown>>
    /\ UNCHANGED lastAcquire
    /\ UNCHANGED <<fqVars, rlVars, stVars, tmVars, epVars, lsVars>>

\* Requests come and go while the pool is swept; no warm process dies by
\* itself and the server is not shut down.
NextWarmSteady ==
    \/ WarmRequest
    \/ \E pid \in WarmPids, retry \in BOOLEAN : WorkerClose(pid, retry)
    \/ \E pid \in WarmPids : WorkerExit(pid)
    \/ WarmUpFire
    \/ WarmSweep
    \/ TickPm

MaxTicksPool == 2

\* The clock of the pool run; the timers of the sweep fire on time or late.
TickPool ==
    /\ pmNow < MaxTicksPool * TickPmMs
    /\ pendingWarmUps = 0
    /\ pmNow' = pmNow + TickPmMs
    /\ lastAcquire' = NoAcquire
    /\ UNCHANGED <<registryEntries, osAlive, closeOwed, reaperInterval, lastReap,
                   pools, pendingWarmUps, sweepTimer, shutdownCalled,
                   spawnedAfterShutdown>>
    /\ UNCHANGED <<fqVars, rlVars, stVars, tmVars, epVars, lsVars>>

NextWarmPool ==
    \/ WarmRequest
    \/ \E pid \in WarmPids : WorkerClose(pid, FALSE)
    \/ \E pid \in WarmPids : WorkerExit(pid)
    \/ \E pid \in WarmPids : WarmExit(pid)
    \/ \E pid \in WarmPids : WarmCleanup(pid)
    \/ WarmUpFire
    \/ WarmSweep
    \/ TickPool

NextWarm ==
    \/ NextWarmSteady
    \/ \E pid \in WarmPids : WarmExit(pid)
    \/ \E pid \in WarmPids : WarmCleanup(pid)
    \/ Shutdown

(***************************************************************************)
(* Part 6: extractPrompt (server.mjs): the prompt built from a request's   *)
(* messages.  A message is its role and the length of its text; the        *)
(* result is the list of the kept parts' lengths and the prompt's length.  *)
(***************************************************************************)

MAX_PROMPT_CHARS == 100
MaxMessages == 3
TruncationNoticeLen == 48
AssistantPrefixLen == 22
SeparatorLen == 2
Roles == {"system", "user", "assistant"}
ContentLens == {10, 50, 100}
NotExtracted == [kept |-> <<>>, truncated |-> FALSE, promptLen |-> -1]

MessageLists ==
    UNION {[1..n -> [role : Roles, len : ContentLens]] : n \in 0..MaxMessages}

\* allParts: the texts of the user messages and the prefixed assistant ones.
RECURSIVE allParts(_)
allParts(msgs) ==
    IF msgs = <<>> THEN <<>>
    ELSE LET msg == Head(msgs)
         IN  IF msg.role = "system" THEN allParts(Tail(msgs))
             ELSE IF msg.role = "user" THEN <<msg.len>> \o allParts(Tail(msgs))
             ELSE <<AssistantPrefixLen + msg.len>> \o allParts(Tail(msgs))

RECURSIVE SumSeq(_)
SumSeq(q) == IF q = <<>> THEN 0 ELSE Head(q) + SumSeq(Tail(q))

\* kept.join("\n\n"): the parts with a separator between neighbours.
joinLen(kept) == IF kept = <<>> THEN 0 ELSE SumSeq(kept) + SeparatorLen * (Len(kept) - 1)

\* The truncation loop, from part i down to the first: kept and totalLen so far.
RECURSIVE keepFrom(_, _, _, _)
keepFrom(parts, i, kept, totalLen) ==
    IF i = 0 THEN [kept |-> kept, truncated |-> FALSE]
    ELSE IF totalLen + parts[i] > MAX_PROMPT_CHARS /\ Len(kept) > 0
    THEN [kept |-> kept, truncated |-> TRUE]
    ELSE keepFrom(parts, i - 1, <<parts[i]>> \o kept, totalLen + parts[i])

extractPrompt(msgs) ==
    LET parts == allParts(msgs)
        r == keepFrom(parts, Len(parts), <<>>, 0)
        joined == IF r.truncated THEN <<TruncationNoticeLen>> \o r.kept ELSE r.kept
    IN  [kept |-> r.kept, truncated |-> r.truncated, promptLen |-> joinLen(joined)]

InitNoPrompt ==
    /\ messages = <<>>
    /\ extracted = NotExtracted

InitPrompt ==
    /\ messages \in MessageLists
    /\ extracted = NotExtracted

\* The handler calls extractPrompt(body.messages).
ExtractPrompt ==
    /\ extracted = NotExtracted
    /\ extracted' = extractPrompt(messages)
    /\ UNCHANGED messages
    /\ UNCHANGED <<fqVars, rlVars, stVars, tmVars, pmVars, lsVars>>

(***************************************************************************)
(* Specifications: one per subsystem; the other subsystems stay idle.      *)
(***************************************************************************)

vars == <<fqVars, rlVars, stVars, tmVars, pmVars, epVars, lsVars>>

\* ---------------------------------------------------------------------------
\* Part 7: the lease of a streaming request and the life of its workers.
\* ---------------------------------------------------------------------------

STREAM_TIMEOUT_MS == 1800000
LeaseGraceMs == 60000
QUICK_FAIL_MS == 5000
SweepIntervalMs == 5000
MaxTimeLs == 2110000

\* createFairQueue({... maxLeaseMs: STREAM_TIMEOUT_MS + 60_000 ...}).
serverMaxLeaseMs == STREAM_TIMEOUT_MS + LeaseGraceMs

InitLease ==
    /\ lsNow = 0
    /\ lsPhase = "idle"
    /\ lease = "none"
    /\ leaseAcquiredAt = 0
    /\ lsRateWaitTotal = 0
    /\ lsWakeAt = 0
    /\ lsSpawnedAt = 0
    /\ lsSignalled = FALSE
    /\ lsRetryCount = 0
    /\ lsNextSweepAt = SweepIntervalMs

\* release(): the closure's "released" flag and the activeLeases.has test.
leaseRelease(l) == IF l = "held" THEN "released" ELSE l

\* sweep phase 2: "held > maxLeaseMs" force-releases the lease.
leaseSweep(l, acquiredAt, t) ==
    IF l = "held" /\ t - acquiredAt > serverMaxLeaseMs THEN "leaked" ELSE l

\* queue.acquire on the fast path: the request holds a slot from now on and
\* enters the rate-wait loop.
LsAcquire ==
    /\ lsPhase = "idle"
    /\ lsPhase' = "rateWait"
    /\ lease' = "held"
    /\ leaseAcquiredAt' = lsNow
    /\ lsWakeAt' = lsNow
    /\ UNCHANGED <<lsNow, lsRateWaitTotal, lsSpawnedAt, lsSignalled, lsRetryCount,
                   lsNextSweepAt>>
    /\ UNCHANGED <<fqVars, rlVars, stVars, tmVars, pmVars, epVars>>

\* One iteration of the rate-wait loop with the answer of rateLimiter.check:
\* ok (the worker is spawned and its execTimer armed), or a wait of at least
\* MaxSleepMs (503 and release() once rateWaitTotal has reached the cap, a
\* sleep of MaxSleepMs otherwise).
LsRateLoop(ok) ==
    /\ lsPhase = "rateWait" /\ lsNow >= lsWakeAt
    /\ IF ok
       THEN /\ lsPhase' = "stream"
            /\ lsSpawnedAt' = lsNow
            /\ UNCHANGED <<lease, lsRateWaitTotal, lsWakeAt>>
       ELSE IF rateWaitExceeded(lsRateWaitTotal)
       THEN /\ lsPhase' = "done"
            /\ lease' = leaseRelease(lease)
            /\ UNCHANGED <<lsSpawnedAt, lsRateWaitTotal, lsWakeAt>>
       ELSE /\ lsWakeAt' = lsNow + MaxSleepMs
            /\ lsRateWaitTotal' = lsRateWaitTotal + MaxSleepMs
            /\ UNCHANGED <<lsPhase, lease, lsSpawnedAt>>
    /\ UNCHANGED <<lsNow, leaseAcquiredAt, lsSignalled, lsRetryCount, lsNextSweepAt>>
    /\ UNCHANGED <<fqVars, rlVars, stVars, tmVars, pmVars, epVars>>

\* execTimer fires STREAM_TIMEOUT_MS after the spawn: SIGTERM to the worker.
LsExecTimer ==
    /\ lsPhase = "stream" /\ ~lsSignalled
    /\ lsNow >= lsSpawnedAt + STREAM_TIMEOUT_MS
    /\ lsSignalled' = TRUE
    /\ UNCHANGED <<lsNow, lsPhase, lease, leaseAcquiredAt, lsRateWaitTotal, lsWakeAt,
                   lsSpawnedAt, lsRetryCount, lsNextSweepAt>>
    /\ UNCHANGED <<fqVars, rlVars, stVars, tmVars, pmVars, epVars>>

\* The worker has exited and its close handler runs: a quick failure without
\* content starts the next attempt, anything else calls release().
LsWorkerClose(failed) ==
    /\ lsPhase = "stream"
    /\ IF failed /\ lsNow - lsSpawnedAt < QUICK_FAIL_MS /\ lsRetryCount < MAX_RETRIES
       THEN /\ lsRetryCount' = lsRetryCount + 1
            /\ lsSpawnedAt' = lsNow
            /\ UNCHANGED <<lsPhase, lease>>
       ELSE /\ lsPhase' = "done"
            /\ lease' = leaseRelease(lease)
            /\ UNCHANGED <<lsRetryCount, lsSpawnedAt>>
    /\ lsSignalled' = FALSE
    /\ UNCHANGED <<lsNow, leaseAcquiredAt, lsRateWaitTotal, lsWakeAt, lsNextSweepAt>>
    /\ UNCHANGED <<fqVars, rlVars, stVars, tmVars, pmVars, epVars>>

\* The sweep interval of the queue fires.
LsSweep ==
    /\ lsNow >= lsNextSweepAt
    /\ lease' = leaseSweep(lease, leaseAcquiredAt, lsNow)
    /\ lsNextSweepAt' = lsNextSweepAt + SweepIntervalMs
    /\ UNCHANGED <<lsNow, lsPhase, leaseAcquiredAt, lsRateWaitTotal, lsWakeAt,
                   lsSpawnedAt, lsSignalled, lsRetryCount>>
    /\ UNCHANGED <<fqVars, rlVars, stVars, tmVars, pmVars, epVars>>

\* Time passes while the request is in flight: no timer is overdue, and a
\* worker that was sent SIGTERM has exited and been handled.
TickLs ==
    /\ lsNow < MaxTimeLs
    /\ lsPhase \in {"rateWait", "stream"}
    /\ lsPhase = "rateWait" => lsNow < lsWakeAt
    /\ lsPhase = "stream" => ~lsSignalled /\ lsNow < lsSpawnedAt + STREAM_TIMEOUT_MS
    /\ lsNow < lsNextSweepAt
    /\ lsNow' = lsNow + SweepIntervalMs
    /\ UNCHANGED <<lsPhase, lease, leaseAcquiredAt, lsRateWaitTotal, lsWakeAt,
                   lsSpawnedAt, lsSignalled, lsRetryCount, lsNextSweepAt>>
    /\ UNCHANGED <<fqVars, rlVars, stVars, tmVars, pmVars, epVars>>

NextLease ==
    \/ LsAcquire
    \/ \E ok \in BOOLEAN : LsRateLoop(ok)
    \/ LsExecTimer
    \/ \E failed \in BOOLEAN : LsWorkerClose(failed)
    \/ LsSweep
    \/ TickLs

\* ---------------------------------------------------------------------------
\* The specifications.
\* ---------------------------------------------------------------------------

\* One streaming request from its lease to the end of its last worker.
InitSpecLease == InitQueue /\ acquireLimit = 0 /\ queueLimits = DefaultLimits /\ InitRL /\ InitStreamSpawned /\ InitTimed /\ InitProcs /\ InitNoPrompt /\ InitLease
SpecLease == InitSpecLease /\ [][NextLease]_vars

\* The queue under load with time, timeouts and the sweep.
InitSpecFQ == InitFQ /\ InitRL /\ InitStreamSpawned /\ InitTimed /\ InitProcs /\ InitNoPrompt /\ InitLease
SpecFQ == InitSpecFQ /\ [][NextFQ]_vars

\* The queue's order of grants, all priorities, no time.
InitSpecFQOrder == InitFQOrder /\ InitRL /\ InitStreamSpawned /\ InitTimed /\ InitProcs /\ InitNoPrompt /\ InitLease
SpecFQOrder == InitSpecFQOrder /\ [][NextFQOrder]_vars

\* The queue's rotation between sources at equal priority, no time.
InitSpecFQRotate == InitFQRotate /\ InitRL /\ InitStreamSpawned /\ InitTimed /\ InitProcs /\ InitNoPrompt /\ InitLease
SpecFQRotate == InitSpecFQRotate /\ [][NextFQRotate]_vars

\* The queue filled to its limits.
InitSpecFQFull == InitFQFull /\ InitRL /\ InitStreamSpawned /\ InitTimed /\ InitProcs /\ InitNoPrompt /\ InitLease
SpecFQFull == InitSpecFQFull /\ [][NextFQFull]_vars

\* Two sources, one slot, all requests submitted before the first release.
InitSpecFQPair == InitFQPair /\ InitRL /\ InitStreamSpawned /\ InitTimed /\ InitProcs /\ InitNoPrompt /\ InitLease
SpecFQPair == InitSpecFQPair /\ [][NextFQPair]_vars

\* One source, one slot, a burst of requests of mixed priorities.
InitSpecFQBurst == InitFQBurst /\ InitRL /\ InitStreamSpawned /\ InitTimed /\ InitProcs /\ InitNoPrompt /\ InitLease
SpecFQBurst == InitSpecFQBurst /\ [][NextFQBurst]_vars

\* The streaming engine's connection accounting when several spawns fail.
InitSpecStreamConns == InitQueue /\ acquireLimit = 0 /\ queueLimits = DefaultLimits /\ InitRL /\ InitStreamConns /\ InitTimed /\ InitProcs /\ InitNoPrompt /\ InitLease
SpecStreamConns == InitSpecStreamConns /\ [][NextStreamConns]_vars

\* The timed queue with two slots and a per-source cap of one for source A.
InitSpecFQCap == InitFQCap /\ InitRL /\ InitStreamSpawned /\ InitTimed /\ InitProcs /\ InitNoPrompt /\ InitLease
SpecFQCap == InitSpecFQCap /\ [][NextFQCap]_vars

\* The admission loop until the rate-wait cap is reached.
InitSpecRLLong == InitQueue /\ acquireLimit = 0 /\ queueLimits = DefaultLimits /\ InitRL /\ InitStreamSpawned /\ InitTimed /\ InitProcs /\ InitNoPrompt /\ InitLease
SpecRLLong == InitSpecRLLong /\ [][NextRLLong]_vars

\* The warm pool alone over a short run of the clock: requests, worker and
\* warm exits, the close handlers, the queued warmUps and the sweep.
InitSpecWarmPool == InitQueue /\ acquireLimit = 0 /\ queueLimits = DefaultLimits /\ InitRL /\ InitStreamSpawned /\ InitTimed /\ InitProcsWarm /\ InitNoPrompt /\ InitLease
SpecWarmPool == InitSpecWarmPool /\ [][NextWarmPool]_vars

\* The rate limiter and the admission loop.
InitSpecRL == InitQueue /\ acquireLimit = 0 /\ queueLimits = DefaultLimits /\ InitRL /\ InitStreamSpawned /\ InitTimed /\ InitProcs /\ InitNoPrompt /\ InitLease
SpecRL == InitSpecRL /\ [][NextRL]_vars

\* The limiter called directly, with a clock that leaves the tick grid.
InitSpecRLFine == InitQueue /\ acquireLimit = 0 /\ queueLimits = DefaultLimits /\ InitRLFine /\ InitStreamSpawned /\ InitTimed /\ InitProcs /\ InitNoPrompt /\ InitLease
SpecRLFine == InitSpecRLFine /\ [][NextRLFine]_vars

\* The process registry and its reaper.
InitSpecRegistry == InitQueue /\ acquireLimit = 0 /\ queueLimits = DefaultLimits /\ InitRL /\ InitStreamSpawned /\ InitTimed /\ InitProcs /\ InitNoPrompt /\ InitLease
SpecRegistry == InitSpecRegistry /\ [][NextRegistry]_vars

\* The warm pool of one key under requests, sweeps and shutdown.
InitSpecWarm == InitQueue /\ acquireLimit = 0 /\ queueLimits = DefaultLimits /\ InitRL /\ InitStreamSpawned /\ InitTimed /\ InitProcsWarm /\ InitNoPrompt /\ InitLease
SpecWarm == InitSpecWarm /\ [][NextWarm]_vars

\* The warm pool under steady demand: every queued warmUp runs, the sweep
\* interval keeps firing, processes of requests end and new requests arrive.
SpecWarmSteady ==
    /\ InitSpecWarm /\ [][NextWarmSteady]_vars
    /\ WF_vars(WarmRequest) /\ WF_vars(WarmUpFire) /\ WF_vars(WarmSweep) /\ WF_vars(TickPm)
    /\ \A pid \in WarmPids : WF_vars(WorkerExit(pid)) /\ WF_vars(WorkerClose(pid, FALSE))

\* extractPrompt applied to every message list of the bounds.
InitSpecPrompt == InitQueue /\ acquireLimit = 0 /\ queueLimits = DefaultLimits /\ InitRL /\ InitStreamSpawned /\ InitTimed /\ InitProcs /\ InitPrompt /\ InitLease
SpecPrompt == InitSpecPrompt /\ [][ExtractPrompt]_vars

\* One streaming request whose worker processes all spawn.
InitSpecStream == InitQueue /\ acquireLimit = 0 /\ queueLimits = DefaultLimits /\ InitRL /\ InitStreamSpawned /\ InitTimed /\ InitProcs /\ InitNoPrompt /\ InitLease
SpecStream == InitSpecStream /\ [][NextStream]_vars

\* One streaming request whose worker processes may fail to spawn.
InitSpecStreamSpawnFail == InitQueue /\ acquireLimit = 0 /\ queueLimits = DefaultLimits /\ InitRL /\ InitStreamSpawnFail /\ InitTimed /\ InitProcs /\ InitNoPrompt /\ InitLease
SpecStreamSpawnFail == InitSpecStreamSpawnFail /\ [][NextStreamSpawnFail]_vars

\* The keepalive of the attempts of one streaming request.
InitSpecKeepalive == InitQueue /\ acquireLimit = 0 /\ queueLimits = DefaultLimits /\ InitRL /\ InitStreamSpawned /\ InitTimed /\ InitProcs /\ InitNoPrompt /\ InitLease
SpecKeepalive == InitSpecKeepalive /\ [][NextKeepalive]_vars

\* The routing of many requests over two healthy workers.
InitSpecWorkers == InitQueue /\ acquireLimit = 0 /\ queueLimits = DefaultLimits /\ InitRL /\ InitStreamSpawned /\ InitTimed /\ InitProcs /\ InitNoPrompt /\ InitLease
SpecWorkers == InitSpecWorkers /\ [][NextWorkers]_vars

\* The health of the workers over time.
InitSpecHealth == InitQueue /\ acquireLimit = 0 /\ queueLimits = DefaultLimits /\ InitRL /\ InitStreamSpawned /\ InitTimed /\ InitProcs /\ InitNoPrompt /\ InitLease
SpecHealth == InitSpecHealth /\ [][NextHealth]_vars

(***************************************************************************)
(* Claims about the fair queue.                                            *)
(***************************************************************************)

QueuedSources(S) == {s \in Sources : S.sourceQueues[s] # <<>>}

\* C1: in every reachable state activeCount <= maxConcurrent, and every grant
\* (fast path or dispatch) was made while activeCount < maxConcurrent.
C1_ActiveNeverExceedsMax ==
    /\ activeCount <= maxConcurrent
    /\ Cardinality(DOMAIN activeLeases) <= maxConcurrent
    /\ \A i \in 1..Len(lastGrants) : lastGrants[i].activeBefore < maxConcurrent

\* C1 witness: the queue is at capacity right after a dispatch granted a queued
\* entry, and another entry is still waiting.
C1_Witness ==
    /\ activeCount = maxConcurrent
    /\ totalQueued > 0
    /\ \E i \in 1..Len(lastGrants) : ~lastGrants[i].fast

\* C2: for every lease the active counts are decremented at most once, exactly
\* once as soon as its release closure was invoked (however often, and whether
\* or not the leak sweep came first); so the counts equal the number of leases
\* not yet decremented, globally and per source.
C2_ReleaseDecrementsOnce ==
    /\ \A l \in DOMAIN closures :
          /\ closures[l].decrements <= 1
          /\ closures[l].calls >= 1 => closures[l].decrements = 1
          /\ closures[l].calls >= 1 <=> closures[l].released
    /\ activeCount = Cardinality({l \in DOMAIN closures : closures[l].decrements = 0})
    /\ \A s \in Sources :
          activePerSource[s] =
            Cardinality({l \in DOMAIN closures :
                           closures[l].sourceId = s /\ closures[l].decrements = 0})

\* C2 witness: a lease the sweep force-released first and whose closure was then
\* invoked at least twice.
C2_Witness ==
    \E l \in DOMAIN closures :
        /\ closures[l].calls = 2
        /\ closures[l].leakedAfter # -1
        /\ closures[l].decrements = 1

\* C6: a lease is never held (in activeLeases) longer than maxLeaseMs plus one
\* sweep period; a force-released lease was held longer than maxLeaseMs, is
\* counted in the leaked metric, no longer counts as active, and dispatch was
\* restarted: once a lease has leaked, no free slot is left beside a waiting
\* source below its cap.
C6_LeakRecovered ==
    /\ \A l \in DOMAIN activeLeases :
          now - activeLeases[l].acquiredAt <= maxLeaseMs + SweepPeriod
    /\ \A l \in DOMAIN closures :
          closures[l].leakedAfter # -1 =>
            /\ closures[l].leakedAfter > maxLeaseMs
            /\ closures[l].leakedAfter <= maxLeaseMs + SweepPeriod
            /\ l \notin DOMAIN activeLeases
    /\ metrics.totalLeaked =
          Cardinality({l \in DOMAIN closures : closures[l].leakedAfter # -1})
    /\ activeCount = Cardinality(DOMAIN activeLeases)
    /\ (metrics.totalLeaked > 0 /\ activeCount < maxConcurrent)
          => \A s \in QueuedSources(FQ) : isSourceAtLimit(FQ, s)

\* C6 witness: the sweep has just force-released a lease held for exactly
\* maxLeaseMs + one sweep period, and its dispatch granted a queued entry.
C6_Witness ==
    /\ \E l \in DOMAIN closures :
          /\ closures[l].leakedAfter = maxLeaseMs + SweepPeriod
          /\ ~closures[l].released
    /\ \E i \in 1..Len(lastGrants) : ~lastGrants[i].fast
    /\ now + SweepPeriod = nextSweepAt

Count(seq, x) == Cardinality({i \in 1..Len(seq) : seq[i] = x})

\* C7 (as claimed): while a source waits with a non-empty queue below its cap,
\* every other source is granted at most one queued entry before it is served:
\* between two consecutive queue grants to one source, every waiting source
\* receives its grant.
C7_StrictRoundRobin ==
    \A y \in Sources : \A x \in Sources : Count(passedOver[y], x) <= 1

\* Entry p is due before entry g: higher priority, or equal priority and
\* submitted earlier.
Before(p, g) ==
    \/ PRIORITY_ORDER[p.priority] < PRIORITY_ORDER[g.priority]
    \/ PRIORITY_ORDER[p.priority] = PRIORITY_ORDER[g.priority] /\ p.id < g.id

\* C8: whenever queued entries are granted, no entry of the same source that is
\* still pending, or that is granted later, is of higher priority or of equal
\* priority and submitted earlier.
C8_PriorityThenFifo ==
    \A i \in 1..Len(lastGrants) :
        LET g == lastGrants[i]
            q == sourceQueues[g.sourceId]
        IN  ~g.fast =>
              /\ \A k \in 1..Len(q) : ~Before(q[k], g)
              /\ \A j \in (i + 1)..Len(lastGrants) :
                    (lastGrants[j].sourceId = g.sourceId /\ ~lastGrants[j].fast)
                      => ~Before(lastGrants[j], g)

\* C8 witness: a high-priority entry was granted from the queue while an entry
\* of the same source submitted earlier, of lower priority, is still pending.
C8_Witness ==
    \E i \in 1..Len(lastGrants) :
        LET g == lastGrants[i]
            q == sourceQueues[g.sourceId]
        IN  /\ ~g.fast
            /\ g.priority = "high"
            /\ \E k \in 1..Len(q) : q[k].id < g.id /\ q[k].priority # "high"

\* C9 (as claimed): a waiting source (queue non-empty, below its cap) is served
\* within one full rotation: at most one grant to each of the other sources
\* passes it, so never more grants than there are other sources.
C9_ServedWithinOneRotation ==
    \A y \in Sources : Len(passedOver[y]) <= Cardinality(Sources) - 1

(***************************************************************************)
(* Claims about rate-limit admission.                                      *)
(***************************************************************************)

\* C10: in every reachable state, for every recorded request the number of
\* requests recorded for the model in the 60-second window ending with it
\* (ts - 60 s, ts] is at most requestsPerMin, and so is the number of live
\* events of the limiter's window.
C10_AdmittedWithinLimit ==
    /\ \A i \in 1..Len(admittedAt) :
          Cardinality({j \in 1..Len(admittedAt) :
                         /\ admittedAt[j].ts > admittedAt[i].ts - WINDOW_MS
                         /\ admittedAt[j].ts <= admittedAt[i].ts}) <= requestsPerMin
    /\ \A m \in Models : Len(getWindow(windows, m, rlNow).requests) <= limits[m].requestsPerMin

\* C10 witness: a request that was denied, slept and checked again has just been
\* recorded exactly 60 s after the oldest of the requestsPerMin records before
\* it, while another request is still sleeping in the loop.
C10_Witness ==
    /\ Len(admittedAt) = requestsPerMin + 1
    /\ admittedAt[Len(admittedAt)].waited
    /\ admittedAt[Len(admittedAt)].ts = rlNow
    /\ admittedAt[Len(admittedAt)].ts - admittedAt[1].ts = WINDOW_MS
    /\ lastOutcome = "admitted"
    /\ \E i \in WaiterSlots : waiters[i] # NoWaiter

(***************************************************************************)
(* Claims about the streaming engine.                                      *)
(***************************************************************************)

Received(kind) == {i \in 1..Len(out) : out[i].kind = kind}

\* C3 (as claimed): the client never receives more than one `data: [DONE]`, and
\* a client that stayed connected until the response ended received exactly one.
C3_DoneExactlyOnce ==
    /\ Cardinality(Received("DONE")) <= 1
    /\ (writableEnded /\ ~clientClosed) => Cardinality(Received("DONE")) = 1

\* C4 (as claimed): no worker attempt is started after content of a worker
\* attempt reached the client, and all worker content the client received
\* comes from one attempt.
C4_ContentFromOneAttempt ==
    /\ \A a \in 1..Len(attempts) : ~attempts[a].afterContent
    /\ Cardinality({out[i].from : i \in {j \in Received("content") : out[j].from > 0}}) <= 1

\* C5 (as claimed), in the form a finite run refutes: when the response to a
\* connected client has ended, the client's last two chunks are the terminating
\* chunk and `data: [DONE]`, and if the stream ended on a failure (a worker that
\* exited non-zero or was killed by a timeout, a failed fallback) the chunk
\* before them is the error text.
C5_EndsWithErrorDelta ==
    (writableEnded /\ ~clientClosed) =>
        /\ Len(out) >= 2
        /\ out[Len(out)].kind = "DONE"
        /\ out[Len(out) - 1].kind = "stop"
        /\ endedBy \in {"worker_failed", "fallback_error"} =>
              (Len(out) >= 3 /\ out[Len(out) - 2].kind = "errtext")

(***************************************************************************)
(* Claims about retries, keepalive, worker selection and worker health.    *)
(***************************************************************************)

\* C11 (as claimed): a streaming request makes at most pool-size worker
\* attempts and invokes the fallback at most once; when the fallback has been
\* invoked after every attempt exited non-zero quickly with no content, on a
\* pool whose workers were all tried, exactly one stream_retry was recorded.
C11_AtMostPoolSizeAttempts ==
    /\ Len(attempts) <= Len(_workerPool)
    /\ Len(fallbacks) <= 1
    /\ (/\ Len(fallbacks) = 1
        /\ triedRouters = WorkerNames
        /\ \A a \in 1..Len(attempts) : ~attempts[a].slow /\ ~attempts[a].sentContent)
       => streamRetries = Len(_workerPool) - 1

\* C12 (as claimed): while a streaming attempt is in progress, no more than
\* 30 seconds have passed since the last byte (keepalive comment or delta)
\* was written to the client.
C12_NoSilentHalfMinute == kaRunning => kaNow - lastByteAt <= SLOW_KEEPALIVE_MS

C14_RecoveryOnTime ==
    \A w \in WorkerNames :
        /\ isLimited(ST, w) <=> limitedSince[w] >= 0
        /\ isLimited(ST, w) => limitedAt[w] = limitedSince[w]
        /\ (isLimited(ST, w) /\ lastHealthAt >= 0)
              => lastHealthAt - limitedSince[w] < HEALTH_CHECK_MS
        /\ recoveredAfter[w] >= 0 => recoveredAfter[w] >= HEALTH_CHECK_MS

\* The first worker has recovered after its cooldown while the second one,
\* marked limited later, is still limited.
C14_Witness ==
    /\ recoveredAfter[_workerPool[1]] >= HEALTH_CHECK_MS
    /\ ~isLimited(ST, _workerPool[1])
    /\ isLimited(ST, _workerPool[2])
    /\ lastHealthAt > limitedSince[_workerPool[2]]

\* C15 (as claimed), in the form a finite run refutes: once the client has
\* disconnected, every worker process of the request that is still running
\* has been sent TERM, and when no worker process is left running the
\* request's queue slot has been released.
C15_DisconnectStopsWorkers ==
    clientClosed =>
        /\ \A a \in 1..Len(attempts) : ~attempts[a].closeFired => attempts[a].killed
        /\ (\A a \in 1..Len(attempts) : attempts[a].closeFired) => releaseCalls >= 1

\* C16 (as claimed): when a worker of the request was terminated by its
\* heartbeat or execution timer (and did not exit with code 0 all the same)
\* and the response to a connected client has ended, the client has received
\* an error text delta before the final `data: [DONE]`.
C16_TimeoutEndsWithError ==
    (/\ writableEnded /\ ~clientClosed /\ endedBy # "worker_ok"
     /\ \E a \in 1..Len(attempts) : attempts[a].timedOut)
       => /\ Received("errtext") # {}
          /\ out[Len(out)].kind = "DONE"
          /\ \A i \in Received("errtext") : i < Len(out)

(***************************************************************************)
(* Claims about queue timeouts, queue limits and the rate limiter's check. *)
(***************************************************************************)

QueuedIds ==
    UNION {{sourceQueues[s][i].id : i \in 1..Len(sourceQueues[s])} : s \in Sources}

RECURSIVE SumLen(_)
SumLen(todo) ==
    IF todo = {} THEN 0
    ELSE LET s == CHOOSE x \in todo : TRUE
         IN  Len(sourceQueues[s]) + SumLen(todo \ {s})

\* C17: every acquire call is settled at most once; a call is unsettled exactly
\* while its entry is queued, and then its timer is armed and it has waited no
\* longer than queueTimeoutMs plus one sweep period; totalQueued counts the
\* queued entries; and every call is accounted for once, as processed (with a
\* lease), timed out, rejected or still queued, so a timed-out waiter has no
\* lease and is not counted as processed.
C17_SettledExactlyOnce ==
    /\ DOMAIN settled = 0..(nextReqId - 1)
    /\ \A id \in DOMAIN settled : settled[id] = IF id \in QueuedIds THEN 0 ELSE 1
    /\ DOMAIN timers = QueuedIds
    /\ \A id \in DOMAIN timers : now - timers[id].enqueuedAt <= queueTimeoutMs + SweepPeriod
    /\ totalQueued = SumLen(Sources)
    /\ nextLeaseId = metrics.totalProcessed
    /\ nextReqId = metrics.totalProcessed + metrics.totalTimedOut
                      + metrics.totalRejected + totalQueued

\* One waiter was rejected by its timer or by the sweep while the lease of the
\* only slot is still held: one call processed, one timed out, none queued.
C17_Witness ==
    /\ metrics.totalTimedOut = 1
    /\ metrics.totalProcessed = 1
    /\ activeCount = 1
    /\ totalQueued = 0
    /\ nextReqId = 2

\* C18: totalQueued never exceeds maxTotal and no source queue is longer than
\* maxPerSource; and an acquire that finds no slot free for it while the total
\* limit or its source's limit is reached is rejected (the rejected count goes
\* up by one) and leaves the queues and all active and queued counts unchanged.
C18_FullQueueRejects ==
    /\ [](/\ totalQueued <= maxTotal
          /\ \A s \in Sources : Len(sourceQueues[s]) <= maxPerSource)
    /\ [][\A s \in Sources, p \in Priorities :
            (/\ Acquire(s, p)
             /\ ~(activeCount < maxConcurrent /\ totalQueued = 0 /\ ~isSourceAtLimit(FQ, s))
             /\ (totalQueued >= maxTotal \/ Len(sourceQueues[s]) >= maxPerSource))
            => /\ metrics'.totalRejected = metrics.totalRejected + 1
               /\ metrics'.totalProcessed = metrics.totalProcessed
               /\ UNCHANGED <<activeCount, totalQueued, sourceQueues, sourceOrder,
                              activeLeases, activePerSource, nextLeaseId, timers>>]_vars

\* An acquire was rejected and the queue stands at both limits.
C18_Witness ==
    /\ metrics.totalRejected >= 1
    /\ totalQueued = maxTotal
    /\ \E s \in Sources : Len(sourceQueues[s]) = maxPerSource

(***************************************************************************)
(* Claims about the limiter's check.                                       *)
(***************************************************************************)

LiveEvents(m) == SelectSeq(windows[m], LAMBDA r : rlNow - r.ts < WINDOW_MS)
OldestLiveTs(m) ==
    CHOOSE t \in {LiveEvents(m)[i].ts : i \in 1..Len(LiveEvents(m))} :
        \A i \in 1..Len(LiveEvents(m)) : t <= LiveEvents(m)[i].ts

\* C19: in every reachable state and for every model and request size, if the
\* number of events younger than 60 s is at least requestsPerMin then check
\* answers ok = FALSE with waitMs = max(1 s, 60 s - age of the oldest such
\* event); an event that is 60 s old no longer counts, so check answers
\* ok = TRUE when fewer than requestsPerMin events are younger than 60 s and
\* the token limit does not refuse.
C19_RequestLimitBlocks ==
    \A m \in DOMAIN windows, est \in TokenSizes :
        LET live == LiveEvents(m)
            r == check(windows, m, est, rlNow)
        IN  /\ Len(live) >= limits[m].requestsPerMin =>
                  /\ r.ok = FALSE
                  /\ r.waitMs = MaxOf(1000, WINDOW_MS - (rlNow - OldestLiveTs(m)))
            /\ ( /\ Len(live) < limits[m].requestsPerMin
                 /\ \/ live = <<>>
                    \/ SumTok(live) + est <= limits[m].tokensPerMin ) =>
                  /\ r.ok = TRUE
                  /\ r.waitMs = 0

\* C19 witness: the model has requestsPerMin events younger than 60 s, the
\* oldest recorded at time 0; at 30 s a call has just been refused and check
\* answers waitMs = 30 000 for every request size.
C19_Witness ==
    \E m \in DOMAIN windows :
        /\ Len(LiveEvents(m)) = limits[m].requestsPerMin
        /\ OldestLiveTs(m) = 0
        /\ rlNow = 30000
        /\ lastOutcome = "refused"
        /\ \A est \in TokenSizes :
              check(windows, m, est, rlNow) = [ok |-> FALSE, waitMs |-> 30000]

\* The oldest event is within 1 s of leaving the window: the wait is held at 1 s.
C19_FloorReached ==
    \E m \in DOMAIN windows :
        /\ Len(LiveEvents(m)) = limits[m].requestsPerMin
        /\ WINDOW_MS - (rlNow - OldestLiveTs(m)) < 1000
        /\ check(windows, m, 1, rlNow) = [ok |-> FALSE, waitMs |-> 1000]

\* The oldest of requestsPerMin events is 60 s old: check answers ok again.
C19_OkAgain ==
    \E m \in DOMAIN windows :
        /\ Len(windows[m]) = limits[m].requestsPerMin
        /\ rlNow - windows[m][1].ts = WINDOW_MS
        /\ check(windows, m, 1, rlNow).ok

\* C20: in every reachable state and for every model and request size with
\* (token sum of the events younger than 60 s) + estTokens > tokensPerMin,
\* check answers ok = TRUE if and only if no event is younger than 60 s; when
\* there is one, it answers ok = FALSE with waitMs = max(1 s, 60 s - age of
\* the oldest such event).
C20_TokenLimitBlocks ==
    \A m \in DOMAIN windows, est \in TokenSizes :
        LET live == LiveEvents(m)
            r == check(windows, m, est, rlNow)
        IN  SumTok(live) + est > limits[m].tokensPerMin =>
                /\ r.ok <=> (live = <<>>)
                /\ live = <<>> => r.waitMs = 0
                /\ live # <<>> =>
                      r.waitMs = MaxOf(1000, WINDOW_MS - (rlNow - OldestLiveTs(m)))

\* C20 witness: the window holds one live event, a request larger than
\* tokensPerMin that was admitted into the empty window; the request limit is
\* not reached, and a call has just been refused for its tokens.
C20_Witness ==
    \E m \in DOMAIN windows :
        /\ Len(LiveEvents(m)) = 1
        /\ limits[m].requestsPerMin > 1
        /\ LiveEvents(m)[1].tok > limits[m].tokensPerMin
        /\ lastOutcome = "refused"
        /\ \A est \in TokenSizes : ~check(windows, m, est, rlNow).ok

\* The window has emptied and an oversized request has just been admitted.
C20_FirstOversizedAdmitted ==
    \E m \in DOMAIN windows :
        /\ Len(windows[m]) = 1
        /\ windows[m][1].tok > limits[m].tokensPerMin
        /\ windows[m][1].ts = rlNow
        /\ rlNow > WINDOW_MS
        /\ lastOutcome = "admitted"

(***************************************************************************)
(* Claims about the process registry, the warm pool and shutdown.          *)
(***************************************************************************)

TooOldOrIdle(pid) ==
    \/ pmNow - registryEntries[pid].lastActivityAt > maxIdleMs
    \/ pmNow - registryEntries[pid].spawnedAt > maxProcessAgeMs

\* C22: in every reachable state getZombies reports exactly the registered
\* pids whose last activity is more than maxIdleMs ago or whose spawn age
\* exceeds maxProcessAgeMs; and every reap() step reports those pids and
\* leaves none of them registered, whether or not the process still existed
\* to be signalled, while every other entry is not reported and stays
\* registered unchanged.
C22_ZombiesReaped ==
    /\ [](\A pid \in DOMAIN registryEntries :
            pid \in getZombies(registryEntries, pmNow) <=> TooOldOrIdle(pid))
    /\ [][Reap =>
            \A pid \in DOMAIN registryEntries :
                IF TooOldOrIdle(pid)
                THEN /\ pid \in lastReap'.reported
                     /\ pid \notin DOMAIN registryEntries'
                ELSE /\ pid \notin lastReap'.reported
                     /\ pid \in DOMAIN registryEntries'
                     /\ registryEntries'[pid] = registryEntries[pid]]_vars

\* C22 witness: a reap has just reported a pid whose process no longer existed
\* and removed it, and has left registered an entry that is exactly maxIdleMs
\* idle.
C22_Witness ==
    /\ lastReap.ran
    /\ lastReap.undelivered # {}
    /\ lastReap.reported \cap DOMAIN registryEntries = {}
    /\ \E pid \in DOMAIN registryEntries :
          pmNow - registryEntries[pid].lastActivityAt = maxIdleMs

WarmCount == Len(AliveWarm(pools, osAlive))

\* C21 (as claimed): every step in which a request takes a live process out of
\* the pool queues a warmUp for the key in the same step; and under steady
\* demand the number of live warm processes of the key is, from some point
\* on, maxWarmPerKey whenever no queued warmUp is waiting to run.
C21_PoolReplenished ==
    /\ [][(\E pid \in WarmPidsOf(pools) :
              pid \notin DOMAIN registryEntries /\ pid \in DOMAIN registryEntries')
          => pendingWarmUps' = pendingWarmUps + 1]_vars
    /\ <>[](pendingWarmUps = 0 => WarmCount = maxWarmPerKey)

\* C23 (as claimed): the shutdown step signals every warm process and every
\* registered pid; and in every state after shutdown the sweep timer and the
\* reaper are stopped, no warm process is alive in the pool, and no process
\* has been spawned since (neither by a warmUp that was already queued nor
\* by the retry of a request whose process was killed).
C23_ShutdownStopsProcesses ==
    /\ [][Shutdown =>
            osAlive' \cap (DOMAIN registryEntries \cup WarmPidsOf(pools)) = {}]_vars
    /\ [](shutdownCalled =>
            /\ ~sweepTimer /\ ~reaperInterval
            /\ WarmCount = 0
            /\ ~spawnedAfterShutdown)

(***************************************************************************)
(* Claims about the prompt.                                                *)
(***************************************************************************)

\* C24 (as claimed): whatever extractPrompt returned, the joined prompt (kept
\* parts, truncation notice and separators) is at most MAX_PROMPT_CHARS
\* long, or the final message is the only part kept.
C24_PromptWithinBudget ==
    extracted # NotExtracted =>
        \/ extracted.promptLen <= MAX_PROMPT_CHARS
        \/ Len(extracted.kept) = 1

\* The acquire call `id` of a scenario as a queue entry.
CallEntry(id) == [id |-> id, priority |-> dispatchLog.submitted[id + 1].priority]

\* C25 (as claimed): the grants alternate A1, B1, A2, B2, ...: the i-th grant
\* goes to A when i is odd and to B when i is even, and to that source's
\* requests in the order it submitted them.
C25_AlternatingGrants ==
    \A i \in 1..Len(dispatchLog.granted) :
        LET s == IF i % 2 = 1 THEN "A" ELSE "B"
            id == dispatchLog.granted[i]
        IN  /\ dispatchLog.submitted[id + 1].sourceId = s
            /\ Cardinality({k \in 0..id : dispatchLog.submitted[k + 1].sourceId = s})
                  = (i + 1) \div 2

ClaimedBurst == <<"low", "low", "high", "normal", "high", "low">>
ClaimedBurstOrder == <<"high", "high", "normal", "low", "low", "low">>
BurstGrantOrder == <<0, 2, 4, 3, 1, 5>>

\* C26 (as claimed): the six requests [low, low, high, normal, high, low] of one
\* source are granted in the order high, high, normal, low, low, low.
C26_SortedGrantOrder ==
    (dispatchLog.submitted = [i \in 1..6 |-> [sourceId |-> "A", priority |-> ClaimedBurst[i]]]
       /\ Len(dispatchLog.granted) = 6)
      => [i \in 1..6 |-> CallEntry(dispatchLog.granted[i]).priority] = ClaimedBurstOrder

\* The burst submitted is the claimed one (a longer burst ends with requests of
\* low priority, which come last).
SubmittedClaimedBurst ==
    /\ Len(dispatchLog.submitted) >= 6
    /\ \A i \in 1..Len(dispatchLog.submitted) :
          dispatchLog.submitted[i].priority = IF i <= 6 THEN ClaimedBurst[i] ELSE "low"

\* C26 (amended): the first request of the burst finds the slot free and is
\* granted at once, whatever its priority; the others are granted by priority,
\* in submission order among equal priorities. For [low, low, high, normal,
\* high, low] the grant order is low(1), high(3), high(5), normal(4), low(2),
\* low(6).
C26_FirstThenByPriority ==
    LET g == dispatchLog.granted
        q == sourceQueues["A"]
    IN  /\ Len(g) >= 1 => g[1] = 0
        /\ \A i \in 2..Len(g) :
              /\ \A j \in (i + 1)..Len(g) : ~Before(CallEntry(g[j]), CallEntry(g[i]))
              /\ \A k \in 1..Len(q) : ~Before(q[k], CallEntry(g[i]))
        /\ (SubmittedClaimedBurst /\ Len(g) >= 6)
              => \A i \in 1..6 : g[i] = BurstGrantOrder[i]

\* C26 witness: the burst [low, low, high, normal, high, low] was submitted and
\* its six requests were granted, the first low before both highs.
C26_Witness ==
    /\ SubmittedClaimedBurst
    /\ Len(dispatchLog.granted) >= 6
    /\ \A i \in 1..6 : dispatchLog.granted[i] = BurstGrantOrder[i]

\* Attempt a of the request has been dispatched and has not terminated.
LiveAttempt(a) == ~attempts[a].closeFired /\ ~attempts[a].spawnFailed

\* Every process of the request has ended and every handler owed has run.
RequestOver ==
    /\ started
    /\ \A a \in 1..Len(attempts) : attempts[a].closeFired
    /\ \A f \in 1..Len(fallbacks) : fallbacks[f].phase = "done"

\* C27 (as claimed): the request's queue slot is released through exactly one
\* release path: release() is never called twice for one request, it is not
\* called while an attempt of the request is still running, and it has been
\* called once when the request is over.
C27_ExactlyOneRelease ==
    /\ releaseCalls <= 1
    /\ (\E a \in 1..Len(attempts) : LiveAttempt(a)) => releaseCalls = 0
    /\ RequestOver => releaseCalls = 1

\* C29 (as claimed): each worker's active-connection counter equals the number
\* of its attempts that were dispatched and have not terminated.
C29_ConnsCountLiveAttempts ==
    \A w \in WorkerNames :
        _activeConns[w] =
            Cardinality({a \in 1..Len(attempts) : attempts[a].worker = w /\ LiveAttempt(a)})

HealthyWorkers == {w \in WorkerNames : ~isLimited(ST, w)}

\* C30 (as claimed): the pool is in load-balance mode only while at least two
\* workers are healthy, and a health check that recovers a worker leaves the
\* pool in load-balance mode if and only if at least two workers are healthy
\* after it.
C30_LoadBalanceNeedsTwoHealthy ==
    /\ [](_loadBalanceMode => Cardinality(HealthyWorkers) >= 2)
    /\ [][(HealthCheck /\ HealthyWorkers' # HealthyWorkers)
            => (_loadBalanceMode' <=> Cardinality(HealthyWorkers') >= 2)]_vars

\* C28 (as claimed): whenever an attempt exits with output that classifies as
\* rate-limited, its worker is limited and the pool is in degraded mode after
\* the close handler has run, whether the handler retries or finishes.
C28_RateLimitedExitMarksWorker ==
    [][\A a \in 1..(MAX_RETRIES + 1), code \in {0, 1} :
          ProcClose(a, code, TRUE)
            => (isLimited(ST, attempts[a].worker)' /\ ~_loadBalanceMode')]_vars

\* A step of the request that starts a further attempt.
RetryStep == started /\ Len(attempts') = Len(attempts) + 1

\* C31 (as claimed): an attempt is retried only when its worker exited non-zero
\* (or could not be spawned) with no content sent, less than 5 s after its
\* spawn, and with the retry count below the pool size, and it is retried once;
\* the retry goes to another, healthy worker, an untried one whenever a healthy
\* untried worker exists; an exit with code 0 is never retried.
C31_RetryOnlyOnQuickFail ==
    /\ [][RetryStep =>
            \E a \in 1..Len(attempts) :
                LET target == attempts'[Len(attempts')].worker
                IN  /\ \/ ProcClose(a, 1, TRUE) \/ ProcClose(a, 1, FALSE)
                       \/ ProcError(a)
                    /\ ~attempts[a].errorFired
                    /\ ~attempts[a].sentContent
                    /\ ~attempts[a].slow
                    /\ retryCount < MAX_RETRIES
                    /\ target # attempts[a].worker
                    /\ ~isLimited(ST, target)
                    /\ (\E w \in WorkerNames : w \notin triedRouters /\ ~isLimited(ST, w))
                          => target \notin triedRouters]_vars
    /\ [][\A a \in 1..(MAX_RETRIES + 1), rl \in BOOLEAN :
            ProcClose(a, 0, rl) => Len(attempts') = Len(attempts)]_vars

\* The slots a source holds: its outstanding leases.
HeldBy(sourceId) == {l \in DOMAIN activeLeases : activeLeases[l].sourceId = sourceId}

CappedSources == {s \in Sources : getSourceConcurrencyLimit(s) > 0}

\* C32: a source with a per-source cap c > 0 never holds more than c slots, and
\* its counter equals the slots it holds; no grant goes to a source that was at
\* its cap; and while a capped source waits at its cap, the entries of the
\* other sources are not held back: none of them is queued with a slot free.
C32_PerSourceCapHolds ==
    /\ \A s \in CappedSources :
          /\ Cardinality(HeldBy(s)) <= getSourceConcurrencyLimit(s)
          /\ activePerSource[s] = Cardinality(HeldBy(s))
    /\ \A i \in 1..Len(lastGrants) :
          LET s == lastGrants[i].sourceId
          IN  s \in CappedSources =>
                Cardinality({l \in HeldBy(s) : l <= lastGrants[i].leaseId})
                   <= getSourceConcurrencyLimit(s)
    /\ \A s \in Sources :
          (sourceQueues[s] # <<>> /\ ~isSourceAtLimit(FQ, s))
             => activeCount = queueLimits.maxConcurrent

\* C32 witness: an operation granted a queued entry of source B while source A,
\* holding its one slot, has an entry waiting, and both slots are now taken.
C32_Witness ==
    /\ isSourceAtLimit(FQ, "A")
    /\ sourceQueues["A"] # <<>>
    /\ Cardinality(HeldBy("A")) = getSourceConcurrencyLimit("A")
    /\ \E i \in 1..Len(lastGrants) : lastGrants[i].sourceId = "B" /\ ~lastGrants[i].fast
    /\ activeCount = queueLimits.maxConcurrent

\* The content chunks of attempt a that the client has received.
ContentFrom(o, a) ==
    Cardinality({i \in 1..Len(o) : o[i].kind = "content" /\ o[i].from = a})

\* C33 (as claimed): once an attempt has sent content, neither an `assistant`
\* nor a `result` event of that attempt adds content to the response, whether
\* the event arrives as a stdout line or is parsed from the trailing buffer by
\* the close handler.
C33_AggregateOnlyWithoutContent ==
    [][\A a \in 1..Len(attempts) :
          (/\ attempts[a].sentContent
           /\ \/ StdoutData(a, "assistant")
              \/ StdoutData(a, "result")
              \/ \E code \in {0, 1}, rl \in BOOLEAN : ProcClose(a, code, rl))
            => ContentFrom(out', a) = ContentFrom(out, a)]_vars

\* C34: a request denied by the limiter sleeps min(waitMs, 5 s) and checks
\* again when the sleep is over; it holds its slot while it waits (no release
\* call), its cumulative wait stays below the cap while it sleeps, and the check
\* that finds the cap reached ends the loop with exactly one release() and the
\* answer rate_limit_timeout; it never sleeps again after the cap.
C34_RateWaitBounded ==
    /\ [](\A i \in WaiterSlots :
            waiters[i] # NoWaiter =>
              /\ slotReleases[i] = 0
              /\ waiters[i].rateWaitTotal < MAX_RATE_WAIT_MS
              /\ waiters[i].sleepMs <= MaxSleepMs
              /\ waiters[i].sleepMs >= MinOf(MinWaitMs, MaxSleepMs)
              /\ waiters[i].wakeAt <= rlNow + waiters[i].sleepMs)
    /\ [][\A i \in WaiterSlots :
            (WakeAndRecheck(i) /\ ~check(windows, waiters[i].model, waiters[i].estTokens, rlNow).ok)
              => IF waiters[i].rateWaitTotal + waiters[i].sleepMs >= MAX_RATE_WAIT_MS
                 THEN /\ waiters'[i] = NoWaiter
                      /\ lastOutcome' = "rate_limit_timeout"
                      /\ slotReleases'[i] = 1
                 ELSE /\ waiters'[i].sleepMs =
                            MinOf(check(windows, waiters[i].model, waiters[i].estTokens,
                                        rlNow).waitMs, MaxSleepMs)
                      /\ waiters'[i].wakeAt = rlNow + waiters'[i].sleepMs
                      /\ slotReleases'[i] = 0]_vars

\* C34 witness: a request has waited out the cap: its last check, 300 s or more
\* after it entered the loop, ended with rate_limit_timeout and one release.
C34_Witness ==
    /\ lastOutcome = "rate_limit_timeout"
    /\ rlNow >= MAX_RATE_WAIT_MS
    /\ \E i \in WaiterSlots : waiters[i] = NoWaiter /\ slotReleases[i] = 1

\* C35: acquire hands off only a warm process that is alive and at most
\* maxWarmAgeMs old; the process leaves the pool with the hand-off, so the pool
\* never holds a process a request owns and a sweep never signals one; every
\* entry ahead of it has left the pool too, the live ones stale and signalled.
HandedOff ==
    IF lastAcquire' # lastAcquire /\ lastAcquire'.hit # 0 THEN {lastAcquire'.hit} ELSE {}

PoolIndex(pid) == CHOOSE i \in 1..Len(pools) : pools[i].pid = pid

C35_HandOffStep ==
    \A p \in HandedOff :
        /\ p \in WarmPidsOf(pools) /\ p \notin DOMAIN registryEntries
        /\ p \in DOMAIN registryEntries'
        /\ p \in osAlive /\ p \in osAlive'
        /\ pmNow - pools[PoolIndex(p)].createdAt <= maxWarmAgeMs
        /\ p \notin WarmPidsOf(pools')
        /\ \A i \in 1..(PoolIndex(p) - 1) :
              /\ pools[i].pid \notin WarmPidsOf(pools')
              /\ pools[i].pid \in osAlive =>
                    /\ pmNow - pools[i].createdAt > maxWarmAgeMs
                    /\ pools[i].pid \notin osAlive'

C35_SweepStep ==
    WarmSweep => osAlive' \cap DOMAIN registryEntries = osAlive \cap DOMAIN registryEntries

C35_AcquireHandsOffLiveFresh ==
    /\ [](DOMAIN registryEntries \cap WarmPidsOf(pools) = {})
    /\ [][C35_HandOffStep /\ C35_SweepStep]_vars

C35_Witness ==
    /\ lastAcquire.hit # 0
    /\ lastAcquire.staleKills # {}
    /\ lastAcquire.hit \in DOMAIN registryEntries \cap osAlive
    /\ lastAcquire.staleKills \cap osAlive = {}

\* C36: whatever the interleaving of prewarm, warmUp, the replenishment an
\* acquire queues, process exits and the sweep, the pool of a key never holds
\* more than maxWarmPerKey alive warm processes.
C36_AtMostMaxWarmPerKey == Len(AliveWarm(pools, osAlive)) <= maxWarmPerKey

\* The pool is full while a warmUp queued by an acquire is still to run.
C36_Witness ==
    /\ Len(AliveWarm(pools, osAlive)) = maxWarmPerKey
    /\ pendingWarmUps > 0

\* C37: the leak sweep never force-releases the lease of a request while a
\* worker of that request is running: a running worker is always covered by
\* the request's lease, which bounds the running workers by maxConcurrent.
C37_LeaseCoversWorker == lsPhase = "stream" => lease = "held"

\* The source holds fewer slots than its cap allows (no cap: always).
BelowCap(sourceId) ==
    \/ getSourceConcurrencyLimit(sourceId) <= 0
    \/ Cardinality(HeldBy(sourceId)) < getSourceConcurrencyLimit(sourceId)

\* C38: work conservation. Once an operation of the queue (acquire, release,
\* sweep, queue timeout) has completed, no entry is queued for a source below
\* its cap while a slot is free.
C38_WorkConserving ==
    activeCount < queueLimits.maxConcurrent =>
        \A s \in Sources : sourceQueues[s] # <<>> => ~BelowCap(s)

\* C38 witness: a release or sweep has just granted a queued entry of a source,
\* which is at its cap again with another entry waiting, and a slot is free.
C38_Witness ==
    /\ activeCount < queueLimits.maxConcurrent
    /\ \E i \in 1..Len(lastGrants) :
          /\ ~lastGrants[i].fast
          /\ sourceQueues[lastGrants[i].sourceId] # <<>>
          /\ ~BelowCap(lastGrants[i].sourceId)

RECURSIVE SumActive(_)
SumActive(todo) ==
    IF todo = {} THEN 0
    ELSE LET s == CHOOSE x \in todo : TRUE
         IN  activePerSource[s] + SumActive(todo \ {s})

\* C40: the counters of the queue agree with its collections. activeCount is
\* non-negative and is both the number of outstanding leases and the sum of the
\* per-source active counts; totalQueued is the sum of the queue lengths; and
\* sourceOrder lists, each once, exactly the sources with a non-empty queue.
C40_CountersAgree ==
    /\ activeCount >= 0
    /\ activeCount = Cardinality(DOMAIN activeLeases)
    /\ activeCount = SumActive(Sources)
    /\ \A s \in Sources : activePerSource[s] = Cardinality(HeldBy(s))
    /\ totalQueued = SumLen(Sources)
    /\ \A i, j \in 1..Len(sourceOrder) : sourceOrder[i] = sourceOrder[j] => i = j
    /\ SeqToSet(sourceOrder) = QueuedSources(FQ)

\* C40 witness: an entry has timed out or a lease has leaked, and a lease is
\* held while entries of one source wait and the other sources' queues are empty.
C40_Witness ==
    /\ metrics.totalTimedOut > 0 \/ metrics.totalLeaked > 0
    /\ activeCount > 0
    /\ totalQueued > 0
    /\ Len(sourceOrder) = 1

====
